---- MODULE Spec2Model ----
(***************************************************************************)
(* A model of the Invar invariant pipeline: the expression evaluator, the  *)
(* static type checker, the account-abstraction phase context, the         *)
(* threat-model validator (sandbox, tamper hash, coverage, strict mode),   *)
(* the code generators, the security validator, the `invar build` and     *)
(* `invar report` commands, the parser of the invariant language, the      *)
(* program model, the dependency graph and the hash of the Solana macro.   *)
(*                                                                         *)
(* Strings are sequences of one-character strings, so that prefix tests,   *)
(* lower-casing, substring search, byte-wise ordering and hashing are all  *)
(* computed on the characters.  Integers wider than TLC's own are carried  *)
(* as little-endian sequences of 16-bit limbs at their true width: a       *)
(* signed 128-bit literal is 8 limbs in two's complement, a 64-bit value   *)
(* is 4 limbs.                                                             *)
(***************************************************************************)
EXTENDS Integers, Sequences, FiniteSets, TLC

VARIABLES
    state_vars,       \* ExecutionContext.state_vars : key -> Value
    functions,        \* ExecutionContext.functions  : name -> native callback
    call,             \* the evaluator call in progress / last returned, or NoCall
    tc_state_vars,    \* TypeChecker.state_vars : name -> Type
    tc_functions,     \* TypeChecker.functions  : name -> FunctionSignature
    current_phase,    \* AAContext.current_phase
    layer_state,      \* AAContext.layer_state : layer -> (var -> json value)
    phase_snapshots,  \* AAContext.phase_snapshots : phase -> layer_state copy
    observed,         \* what get_layer_var returned when each snapshot was taken
    sandbox,          \* the last DSLSandbox::validate_expression call, or NoCall
    tamper,           \* the last TamperDetector call, or NoCall
    generated,        \* the last CodeGenerator::generate call, or NoCall
    verifier,         \* the last InjectionVerifier / StrictModeAnalyzer call, or NoCall
    security,         \* the last SecurityValidator::validate_code call, or NoCall
    build,            \* the `invar build` run: position, report, files written
    parsed,           \* the last parse_invariant call, or NoCall
    model,            \* a ProgramModel under construction
    analysis,         \* a DependencyGraph and its last transitive_mutations call
    reported          \* the last `invar report` run, or NoCall

vars == << state_vars, functions, call, tc_state_vars, tc_functions,
           current_phase, layer_state, phase_snapshots, observed, sandbox, tamper,
           generated, verifier, security, build, parsed, model, analysis, reported >>

evalVars    == << state_vars, functions, call >>
checkerVars == << tc_state_vars, tc_functions >>
aaVars      == << current_phase, layer_state, phase_snapshots, observed >>
toolVars    == << generated, verifier, security, build, parsed >>
modelVars   == << model, analysis, reported >>

NoCall == [kind |-> "none"]

(***************************************************************************)
(* Characters and strings                                                  *)
(***************************************************************************)

\* The printable ASCII characters in code order; Ascii[1] is the space (32).
\* (The grave accent, byte 96, is spelled out: it cannot be written in a string.)
Ascii ==
    << " ", "!", "\"", "#", "$", "%", "&", "'", "(", ")", "*", "+", ",", "-", ".", "/",
       "0", "1", "2", "3", "4", "5", "6", "7", "8", "9", ":", ";", "<", "=", ">", "?",
       "@", "A", "B", "C", "D", "E", "F", "G", "H", "I", "J", "K", "L", "M", "N", "O",
       "P", "Q", "R", "S", "T", "U", "V", "W", "X", "Y", "Z", "[", "\\", "]", "^", "_",
       "grave", "a", "b", "c", "d", "e", "f", "g", "h", "i", "j", "k", "l", "m", "n", "o",
       "p", "q", "r", "s", "t", "u", "v", "w", "x", "y", "z", "{", "|", "}", "~" >>

\* The byte of a character.
Code(c) == 31 + (CHOOSE i \in 1..Len(Ascii) : Ascii[i] = c)

\* The character of a byte.
Chr(n) == Ascii[n - 31]

\* str::to_lowercase on ASCII text: 'A'..'Z' map to 'a'..'z'.
to_lowercase(s) ==
    [i \in 1..Len(s) |-> IF Code(s[i]) \in 65..90 THEN Chr(Code(s[i]) + 32) ELSE s[i]]

\* str::starts_with
starts_with(s, p) == Len(p) <= Len(s) /\ SubSeq(s, 1, Len(p)) = p

\* The strings.
Str == Seq(STRING)

\* str::contains
contains[s \in Str, p \in Str] ==
    \E i \in 0..(Len(s) - Len(p)) : SubSeq(s, i + 1, i + Len(p)) = p

\* format!("{}::{}", layer, var)
qualified(layer, var) == layer \o << ":", ":" >> \o var

\* format!("{}::{}::{}", phase, layer, var)
qualified3(phase, layer, var) == phase \o << ":", ":" >> \o layer \o << ":", ":" >> \o var

(***************************************************************************)
(* Fixed-width integers as 16-bit limbs, least significant limb first      *)
(***************************************************************************)

LimbMax == 2^16 - 1
SignBit == 2^15

\* i128 `< 0`
is_negative(val) == val[Len(val)] >= SignBit

\* i128 `<= u64::MAX as i128`
leq_u64_max(val) == is_negative(val) \/ \A i \in 5..8 : val[i] = 0

\* `as i64`, `as u64`: a narrowing cast keeps the low 64 bits.
low64(val) == SubSeq(val, 1, 4)

\* The signed 128-bit integer an I64 payload stands for (sign extension).
sign_extend(n) ==
    n \o (IF is_negative(n) THEN << LimbMax, LimbMax, LimbMax, LimbMax >>
                            ELSE << 0, 0, 0, 0 >>)

\* The 128-bit integer a U64 payload stands for (zero extension).
zero_extend(n) == n \o << 0, 0, 0, 0 >>

\* Unsigned comparison of two payloads of the same width: -1, 0 or 1.
RECURSIVE cmp_limbs(_, _, _)
cmp_limbs(a, b, i) ==
    IF i = 0 THEN 0
    ELSE IF a[i] < b[i] THEN -1
    ELSE IF a[i] > b[i] THEN 1
    ELSE cmp_limbs(a, b, i - 1)

unsigned_cmp(a, b) == cmp_limbs(a, b, Len(a))

\* Signed (two's complement) comparison of two payloads of the same width.
signed_cmp(a, b) ==
    IF is_negative(a) /\ ~is_negative(b) THEN -1
    ELSE IF ~is_negative(a) /\ is_negative(b) THEN 1
    ELSE unsigned_cmp(a, b)

is_zero(n) == \A i \in 1..Len(n) : n[i] = 0

(***************************************************************************)
(* Value, EvaluationError, EvalResult                                      *)
(***************************************************************************)

Bool(b)    == [t |-> "Bool",    b |-> b,     n |-> << >>, a |-> << >>]
U64(n)     == [t |-> "U64",     b |-> FALSE, n |-> n,     a |-> << >>]
U128(n)    == [t |-> "U128",    b |-> FALSE, n |-> n,     a |-> << >>]
I64(n)     == [t |-> "I64",     b |-> FALSE, n |-> n,     a |-> << >>]
Address(a) == [t |-> "Address", b |-> FALSE, n |-> << >>, a |-> a]

Types == {"Bool", "U64", "U128", "I64", "Address"}

\* Value::get_type
get_type(v) == v.t

\* Type::is_numeric
is_numeric(ty) == ty \in {"U64", "U128", "I64"}

\* Value::to_bool (never fails)
to_bool(v) ==
    CASE v.t = "Bool"    -> v.b
      [] v.t = "Address" -> v.a # << >>
      [] OTHER           -> ~is_zero(v.n)

NoValue == [t |-> "none", b |-> FALSE, n |-> << >>, a |-> << >>]
NoError == [kind |-> "none", arg |-> << >>]

Ok(v)          == [ok |-> TRUE,  val |-> v,       err |-> NoError]
Err(kind, arg) == [ok |-> FALSE, val |-> NoValue, err |-> [kind |-> kind, arg |-> arg]]

TypeError == Err("TypeError", << >>)

(***************************************************************************)
(* Expression (crates/core/src/model.rs)                                   *)
(***************************************************************************)

Boolean(b)                      == [tag |-> "Boolean", b |-> b]
IntLit(val)                     == [tag |-> "Int", val |-> val]
Var(name)                       == [tag |-> "Var", name |-> name]
LayerVar(layer, var)            == [tag |-> "LayerVar", layer |-> layer, var |-> var]
PhaseQualifiedVar(phase, layer, var) ==
    [tag |-> "PhaseQualifiedVar", phase |-> phase, layer |-> layer, var |-> var]
PhaseConstraint(phase, constraint) ==
    [tag |-> "PhaseConstraint", phase |-> phase, constraint |-> constraint]
CrossPhaseRelation(phase1, expr1, phase2, expr2, op) ==
    [tag |-> "CrossPhaseRelation", phase1 |-> phase1, expr1 |-> expr1,
     phase2 |-> phase2, expr2 |-> expr2, op |-> op]
BinaryOp(left, op, right)       == [tag |-> "BinaryOp", left |-> left, op |-> op, right |-> right]
Logical(left, op, right)        == [tag |-> "Logical", left |-> left, op |-> op, right |-> right]
Not(expr)                       == [tag |-> "Not", expr |-> expr]
FunctionCall(name, args)        == [tag |-> "FunctionCall", name |-> name, args |-> args]
Tuple(exprs)                    == [tag |-> "Tuple", exprs |-> exprs]

BinaryOps  == {"Eq", "Neq", "Lt", "Gt", "Lte", "Gte"}
LogicalOps == {"And", "Or"}

(***************************************************************************)
(* Evaluator (crates/core/src/evaluator.rs)                                *)
(***************************************************************************)

\* BTreeMap::get(key).cloned()
map_get(map, key) == IF key \in DOMAIN map THEN << map[key] >> ELSE << >>

\* BTreeMap::insert(key, value)
map_insert(map, key, value) ==
    [k \in DOMAIN map \cup {key} |-> IF k = key THEN value ELSE map[k]]

EmptyMap == [k \in {} |-> NoValue]

\* Option::or_else
or_else(opt, alt) == IF opt # << >> THEN opt ELSE alt

\* Option::ok_or(err)
ok_or(opt, err) == IF opt # << >> THEN Ok(opt[1]) ELSE err

\* Expression::Int arm of evaluate: the width is chosen from the literal's range
\* and the literal is cast to it.
eval_int(val) ==
    IF is_negative(val) THEN Ok(I64(low64(val)))
    ELSE IF leq_u64_max(val) THEN Ok(U64(low64(val)))
    ELSE Ok(U128(val))

\* A Var arm that unwraps the binding: a missing variable aborts the thread.
eval_var_unwrap(vars_, name) ==
    ok_or(map_get(vars_, name), Err("panic", name))

\* Expression::Var arm
eval_var(vars_, name) ==
    ok_or(map_get(vars_, name), Err("UndefinedVariable", name))

\* A LayerVar arm that reads the unqualified key before the qualified one.
eval_layer_var_unqualified_first(vars_, layer, var) ==
    LET qualified_name == qualified(layer, var) IN
    ok_or(or_else(map_get(vars_, var), map_get(vars_, qualified_name)),
          Err("UndefinedVariable", qualified_name))

\* Expression::LayerVar arm
eval_layer_var(vars_, layer, var) ==
    LET qualified_name == qualified(layer, var) IN
    ok_or(or_else(map_get(vars_, qualified_name), map_get(vars_, var)),
          Err("UndefinedVariable", qualified_name))

\* Expression::PhaseQualifiedVar arm
eval_phase_var(vars_, phase, layer, var) ==
    LET qualified_name == qualified3(phase, layer, var) IN
    ok_or(or_else(or_else(map_get(vars_, qualified_name),
                          map_get(vars_, qualified(layer, var))),
                  map_get(vars_, var)),
          Err("UndefinedVariable", qualified_name))

\* The ordering test of one relational operator on a comparison result.
rel_holds(op, c) ==
    CASE op = "Lt"  -> c < 0
      [] op = "Gt"  -> c > 0
      [] op = "Lte" -> c <= 0
      [] op = "Gte" -> c >= 0

\* Evaluator::eval_binary_op
eval_binary_op(left, op, right) ==
    CASE op = "Eq"  -> Ok(Bool(left = right))
      [] op = "Neq" -> Ok(Bool(left # right))
      [] OTHER ->
           IF left.t = "U64" /\ right.t = "U64"
             THEN Ok(Bool(rel_holds(op, unsigned_cmp(left.n, right.n))))
           ELSE IF left.t = "I64" /\ right.t = "I64"
             THEN Ok(Bool(rel_holds(op, signed_cmp(left.n, right.n))))
           ELSE IF left.t = "U128" /\ right.t = "U128"
             THEN Ok(Bool(rel_holds(op, unsigned_cmp(left.n, right.n))))
           ELSE TypeError

\* A Logical arm that always goes on to its right operand.
short_circuits_never(op, left_val) == FALSE

\* Whether the Logical arm returns after the left operand alone.
short_circuits(op, left_val) ==
    CASE op = "And" -> ~left_val
      [] op = "Or"  -> left_val

\* The value the Logical arm returns when it short-circuits.
short_value(op) == Bool(op = "Or")

\* A native callback of ExecutionContext.functions applied to its argument values.
\* native_min is a checked two-argument minimum on U64; native_fail always fails;
\* native_first returns its first argument.
call_native(func, args) ==
    CASE func = "native_first" ->
           IF args = << >> THEN Err("InvalidArgument", << "f", "i", "r", "s", "t" >>)
           ELSE Ok(args[1])
      [] func = "native_min" ->
           IF Len(args) # 2 THEN Err("InvalidArgument", << "m", "i", "n" >>)
           ELSE IF args[1].t # "U64" \/ args[2].t # "U64" THEN TypeError
           ELSE IF unsigned_cmp(args[1].n, args[2].n) <= 0 THEN Ok(args[1])
           ELSE Ok(args[2])
      [] func = "native_fail" -> Err("Custom", << "f", "a", "i", "l" >>)

Natives == {"native_min", "native_fail"}

\* Evaluator::evaluate.  The result carries, beside the EvalResult, the log of
\* the nodes evaluate was entered for, in order; a node is named by its path
\* from the root (the child indices taken).
RECURSIVE evaluate(_, _, _)
RECURSIVE evaluate_args(_, _, _, _)

\* An argument loop that evaluates every argument and keeps the error of the
\* last one that failed.
RECURSIVE evaluate_args_to_the_end(_, _, _, _)
evaluate_args_to_the_end(args, ctx, path, i) ==
    IF i > Len(args) THEN [ok |-> TRUE, vals |-> << >>, res |-> Ok(NoValue), log |-> << >>]
    ELSE LET a == evaluate(args[i], ctx, Append(path, i))
             rest == evaluate_args_to_the_end(args, ctx, path, i + 1)
         IN  [ok   |-> a.res.ok /\ rest.ok,
              vals |-> IF a.res.ok /\ rest.ok THEN << a.res.val >> \o rest.vals ELSE << >>,
              res  |-> IF ~rest.ok \/ a.res.ok THEN rest.res ELSE a.res,
              log  |-> a.log \o rest.log]

\* args.iter().map(|arg| self.evaluate(arg)).collect(): stops at the first error.
evaluate_args(args, ctx, path, i) ==
    IF i > Len(args) THEN [ok |-> TRUE, vals |-> << >>, res |-> Ok(NoValue), log |-> << >>]
    ELSE LET a == evaluate(args[i], ctx, Append(path, i)) IN
         IF ~a.res.ok THEN [ok |-> FALSE, vals |-> << >>, res |-> a.res, log |-> a.log]
         ELSE LET rest == evaluate_args(args, ctx, path, i + 1) IN
              [ok   |-> rest.ok,
               vals |-> IF rest.ok THEN << a.res.val >> \o rest.vals ELSE << >>,
               res  |-> rest.res,
               log  |-> a.log \o rest.log]

evaluate(expr, ctx, path) ==
    LET here == << path >> IN
    CASE expr.tag = "Boolean" -> [res |-> Ok(Bool(expr.b)), log |-> here]
      [] expr.tag = "Int" -> [res |-> eval_int(expr.val), log |-> here]
      [] expr.tag = "Var" -> [res |-> eval_var(ctx.state_vars, expr.name), log |-> here]
      [] expr.tag = "LayerVar" ->
           [res |-> eval_layer_var(ctx.state_vars, expr.layer, expr.var), log |-> here]
      [] expr.tag = "PhaseQualifiedVar" ->
           [res |-> eval_phase_var(ctx.state_vars, expr.phase, expr.layer, expr.var),
            log |-> here]
      [] expr.tag = "PhaseConstraint" ->
           LET c == evaluate(expr.constraint, ctx, Append(path, 1)) IN
           [res |-> c.res, log |-> here \o c.log]
      [] expr.tag = "CrossPhaseRelation" ->
           LET l == evaluate(expr.expr1, ctx, Append(path, 1)) IN
           IF ~l.res.ok THEN [res |-> l.res, log |-> here \o l.log]
           ELSE LET r == evaluate(expr.expr2, ctx, Append(path, 2)) IN
                IF ~r.res.ok THEN [res |-> r.res, log |-> here \o l.log \o r.log]
                ELSE [res |-> eval_binary_op(l.res.val, expr.op, r.res.val),
                      log |-> here \o l.log \o r.log]
      [] expr.tag = "BinaryOp" ->
           LET l == evaluate(expr.left, ctx, Append(path, 1)) IN
           IF ~l.res.ok THEN [res |-> l.res, log |-> here \o l.log]
           ELSE LET r == evaluate(expr.right, ctx, Append(path, 2)) IN
                IF ~r.res.ok THEN [res |-> r.res, log |-> here \o l.log \o r.log]
                ELSE [res |-> eval_binary_op(l.res.val, expr.op, r.res.val),
                      log |-> here \o l.log \o r.log]
      [] expr.tag = "Logical" ->
           LET l == evaluate(expr.left, ctx, Append(path, 1)) IN
           IF ~l.res.ok THEN [res |-> l.res, log |-> here \o l.log]
           ELSE IF short_circuits(expr.op, to_bool(l.res.val))
             THEN [res |-> Ok(short_value(expr.op)), log |-> here \o l.log]
           ELSE LET r == evaluate(expr.right, ctx, Append(path, 2)) IN
                IF ~r.res.ok THEN [res |-> r.res, log |-> here \o l.log \o r.log]
                ELSE [res |-> Ok(Bool(to_bool(r.res.val))),
                      log |-> here \o l.log \o r.log]
      [] expr.tag = "Not" ->
           LET v == evaluate(expr.expr, ctx, Append(path, 1)) IN
           IF ~v.res.ok THEN [res |-> v.res, log |-> here \o v.log]
           ELSE [res |-> Ok(Bool(~to_bool(v.res.val))), log |-> here \o v.log]
      [] expr.tag = "FunctionCall" ->
           IF expr.name \notin DOMAIN ctx.functions
             THEN [res |-> Err("UndefinedFunction", expr.name), log |-> here]
           ELSE LET a == evaluate_args(expr.args, ctx, path, 1) IN
                IF ~a.ok THEN [res |-> a.res, log |-> here \o a.log]
                ELSE [res |-> call_native(ctx.functions[expr.name], a.vals),
                      log |-> here \o a.log]
      [] expr.tag = "Tuple" ->
           IF expr.exprs = << >> THEN [res |-> Ok(Bool(TRUE)), log |-> here]
           ELSE LET f == evaluate(expr.exprs[1], ctx, Append(path, 1)) IN
                [res |-> f.res, log |-> here \o f.log]

(***************************************************************************)
(* Type checker (crates/core/src/type_checker.rs)                          *)
(***************************************************************************)

TOk(ty)   == [ok |-> TRUE,  ty |-> ty,     err |-> [kind |-> "none"]]
TErr(err) == [ok |-> FALSE, ty |-> "none", err |-> err]

\* The operator text carried by BinaryOpTypeMismatch.
rel_symbol(op) ==
    CASE op = "Lt"  -> << "<" >>
      [] op = "Gt"  -> << ">" >>
      [] op = "Lte" -> << "<", "=" >>
      [] op = "Gte" -> << ">", "=" >>

\* The operator text carried by LogicalOpRequiresBool.
logical_symbol(op) == IF op = "And" THEN << "&", "&" >> ELSE << "|", "|" >>

\* Expression::Int arm of infer_type
infer_int(val) ==
    IF is_negative(val) THEN TOk("I64")
    ELSE IF leq_u64_max(val) THEN TOk("U64")
    ELSE TOk("U128")

\* The operator rule of check_binary_op that lets operands of different numeric
\* types through the relational operators.
binary_op_rule_no_match(left_ty, op, right_ty) ==
    IF op \in {"Eq", "Neq"}
      THEN IF left_ty # right_ty
             THEN TErr([kind |-> "IncomparableTypes", left |-> left_ty, right |-> right_ty])
             ELSE TOk("Bool")
    ELSE IF ~is_numeric(left_ty) \/ ~is_numeric(right_ty)
      THEN TErr([kind |-> "IncomparableTypes", left |-> left_ty, right |-> right_ty])
    ELSE TOk("Bool")

\* An operator rule whose equality operators widen: == and != accept any two
\* numeric operands.
binary_op_rule_eq_widening(left_ty, op, right_ty) ==
    IF op \in {"Eq", "Neq"}
      THEN IF left_ty # right_ty /\ ~(is_numeric(left_ty) /\ is_numeric(right_ty))
             THEN TErr([kind |-> "IncomparableTypes", left |-> left_ty, right |-> right_ty])
             ELSE TOk("Bool")
    ELSE IF ~is_numeric(left_ty) \/ ~is_numeric(right_ty)
      THEN TErr([kind |-> "IncomparableTypes", left |-> left_ty, right |-> right_ty])
    ELSE IF left_ty # right_ty
      THEN TErr([kind |-> "BinaryOpTypeMismatch", left |-> left_ty,
                 op |-> rel_symbol(op), right |-> right_ty])
    ELSE TOk("Bool")

\* An operator rule whose relational operators test for different types before they
\* test for numeric ones.
binary_op_rule_mismatch_first(left_ty, op, right_ty) ==
    IF op \in {"Eq", "Neq"}
      THEN IF left_ty # right_ty
             THEN TErr([kind |-> "IncomparableTypes", left |-> left_ty, right |-> right_ty])
             ELSE TOk("Bool")
    ELSE IF left_ty # right_ty
      THEN TErr([kind |-> "BinaryOpTypeMismatch", left |-> left_ty,
                 op |-> rel_symbol(op), right |-> right_ty])
    ELSE IF ~is_numeric(left_ty) \/ ~is_numeric(right_ty)
      THEN TErr([kind |-> "IncomparableTypes", left |-> left_ty, right |-> right_ty])
    ELSE TOk("Bool")

\* An operator rule that orders any two operands of one type, numeric or not.
binary_op_rule_orders_equal_types(left_ty, op, right_ty) ==
    IF op \in {"Eq", "Neq"}
      THEN IF left_ty # right_ty
             THEN TErr([kind |-> "IncomparableTypes", left |-> left_ty, right |-> right_ty])
             ELSE TOk("Bool")
    ELSE IF left_ty # right_ty
      THEN TErr([kind |-> "BinaryOpTypeMismatch", left |-> left_ty,
                 op |-> rel_symbol(op), right |-> right_ty])
    ELSE TOk("Bool")

\* The operator rule of check_binary_op, on the operand types already inferred.
binary_op_rule(left_ty, op, right_ty) ==
    IF op \in {"Eq", "Neq"}
      THEN IF left_ty # right_ty
             THEN TErr([kind |-> "IncomparableTypes", left |-> left_ty, right |-> right_ty])
             ELSE TOk("Bool")
    ELSE IF ~is_numeric(left_ty) \/ ~is_numeric(right_ty)
      THEN TErr([kind |-> "IncomparableTypes", left |-> left_ty, right |-> right_ty])
    ELSE IF left_ty # right_ty
      THEN TErr([kind |-> "BinaryOpTypeMismatch", left |-> left_ty,
                 op |-> rel_symbol(op), right |-> right_ty])
    ELSE TOk("Bool")

\* The operand rule of check_logical_op, on the operand types already inferred.
logical_op_rule(left_ty, op, right_ty) ==
    IF left_ty # "Bool"
      THEN TErr([kind |-> "LogicalOpRequiresBool", op |-> logical_symbol(op),
                 actual |-> left_ty])
    ELSE IF right_ty # "Bool"
      THEN TErr([kind |-> "LogicalOpRequiresBool", op |-> logical_symbol(op),
                 actual |-> right_ty])
    ELSE TOk("Bool")

\* The Expression variants infer_type has a match arm for.
InferArms ==
    { "Boolean", "Int", "Var", "LayerVar", "BinaryOp", "Logical", "Not",
      "FunctionCall", "Tuple" }

\* TypeChecker::infer_type, with check_binary_op, check_logical_op and
\* check_function_call.  The match has no arm for PhaseQualifiedVar,
\* PhaseConstraint and CrossPhaseRelation: for them no type is produced.
RECURSIVE infer_type(_, _)
RECURSIVE check_args(_, _, _, _, _)

\* The argument loop of check_function_call, from argument i on.
check_args(name, args, sig, tc, i) ==
    IF i > Len(args) THEN TOk(sig.return_type)
    ELSE LET actual == infer_type(args[i], tc) IN
         IF ~actual.ok THEN actual
         ELSE IF actual.ty # sig.params[i]
           THEN TErr([kind |-> "FunctionArgMismatch", function |-> name,
                      param_idx |-> i - 1, expected |-> sig.params[i],
                      actual |-> actual.ty])
         ELSE check_args(name, args, sig, tc, i + 1)

infer_type(expr, tc) ==
    CASE expr.tag = "Boolean" -> TOk("Bool")
      [] expr.tag = "Int" -> infer_int(expr.val)
      [] expr.tag = "Var" ->
           IF expr.name \in DOMAIN tc.state_vars THEN TOk(tc.state_vars[expr.name])
           ELSE TErr([kind |-> "UndefinedVariable", name |-> expr.name])
      [] expr.tag = "LayerVar" ->
           IF expr.var \in DOMAIN tc.state_vars THEN TOk(tc.state_vars[expr.var])
           ELSE TErr([kind |-> "UndefinedVariable",
                      name |-> qualified(expr.layer, expr.var)])
      [] expr.tag = "BinaryOp" ->
           LET left_ty == infer_type(expr.left, tc) IN
           IF ~left_ty.ok THEN left_ty
           ELSE LET right_ty == infer_type(expr.right, tc) IN
                IF ~right_ty.ok THEN right_ty
                ELSE binary_op_rule(left_ty.ty, expr.op, right_ty.ty)
      [] expr.tag = "Logical" ->
           LET left_ty == infer_type(expr.left, tc) IN
           IF ~left_ty.ok THEN left_ty
           ELSE LET right_ty == infer_type(expr.right, tc) IN
                IF ~right_ty.ok THEN right_ty
                ELSE logical_op_rule(left_ty.ty, expr.op, right_ty.ty)
      [] expr.tag = "Not" ->
           LET ty == infer_type(expr.expr, tc) IN
           IF ~ty.ok THEN ty
           ELSE IF ty.ty # "Bool"
             THEN TErr([kind |-> "UnaryOpTypeMismatch", op |-> << "!" >>,
                        operand |-> ty.ty])
           ELSE TOk("Bool")
      [] expr.tag = "FunctionCall" ->
           IF expr.name \notin DOMAIN tc.functions
             THEN TErr([kind |-> "UndefinedFunction", name |-> expr.name])
           ELSE IF Len(expr.args) # Len(tc.functions[expr.name].params)
             THEN TErr([kind |-> "Custom", name |-> expr.name,
                        expects |-> Len(tc.functions[expr.name].params),
                        got |-> Len(expr.args)])
           ELSE check_args(expr.name, expr.args, tc.functions[expr.name], tc, 1)
      [] expr.tag = "Tuple" ->
           IF expr.exprs = << >> THEN TOk("Bool") ELSE infer_type(expr.exprs[1], tc)
      [] OTHER -> TErr([kind |-> "NoMatchArm", variant |-> expr.tag])

\* TypeChecker::check_expr
check_expr(expr, tc) == infer_type(expr, tc)

s_sum == << "s", "u", "m" >>
s_min == << "m", "i", "n" >>
s_len == << "l", "e", "n" >>
s_max == << "m", "a", "x" >>

\* TypeChecker::register_stdlib_functions, as the table it leaves behind
stdlib_functions(fns) ==
    LET std == [ k \in { s_sum, s_len, s_min, s_max } |->
                   CASE k = s_sum -> [params |-> << "U64" >>, return_type |-> "U64"]
                     [] k = s_len -> [params |-> << "Address" >>, return_type |-> "U64"]
                     [] k = s_min -> [params |-> << "U64", "U64" >>, return_type |-> "U64"]
                     [] k = s_max -> [params |-> << "U64", "U64" >>, return_type |-> "U64"] ]
    IN  [k \in DOMAIN fns \cup DOMAIN std |-> IF k \in DOMAIN std THEN std[k] ELSE fns[k]]

\* TypeChecker::infer_type_from_string
infer_type_from_string(type_str) ==
    LET t == to_lowercase(type_str) IN
    CASE t = << "b", "o", "o", "l" >> \/ t = << "b", "o", "o", "l", "e", "a", "n" >> -> "Bool"
      [] t = << "u", "6", "4" >> \/ t = << "u", "i", "n", "t", "6", "4" >> -> "U64"
      [] t = << "u", "1", "2", "8" >> \/ t = << "u", "i", "n", "t", "1", "2", "8" >> -> "U128"
      [] t = << "i", "6", "4" >> \/ t = << "i", "n", "t", "6", "4" >> -> "I64"
      [] t = << "a", "d", "d", "r", "e", "s", "s" >> -> "Address"
      [] OTHER -> "U64"

\* TypeChecker::new
TypeChecker_new ==
    /\ tc_state_vars = [k \in {} |-> "Bool"]
    /\ tc_functions = [k \in {} |-> [params |-> << >>, return_type |-> "Bool"]]

\* TypeChecker::register_state_var
register_state_var(name, ty) ==
    /\ tc_state_vars' = map_insert(tc_state_vars, name, ty)
    /\ UNCHANGED tc_functions

\* TypeChecker::check_expr on the checker as it stands; the outcome is recorded.
TypeCheck(expr) ==
    /\ call' = [kind |-> "checked", expr |-> expr,
                check |-> check_expr(expr, [state_vars |-> tc_state_vars,
                                            functions |-> tc_functions])]
    /\ UNCHANGED << tc_state_vars, tc_functions >>

\* TypeChecker::load_from_program, for the state_vars table (name -> type_name)
\* of a ProgramModel: every state variable is registered, then the standard
\* library.
load_from_program(program_state_vars) ==
    /\ tc_state_vars' =
         [k \in DOMAIN tc_state_vars \cup DOMAIN program_state_vars |->
            IF k \in DOMAIN program_state_vars
              THEN infer_type_from_string(program_state_vars[k])
              ELSE tc_state_vars[k]]
    /\ tc_functions' = stdlib_functions(tc_functions)

(***************************************************************************)
(* ExecutionContext and the evaluator's driver                             *)
(***************************************************************************)

\* ExecutionContext::new
ExecutionContext_new ==
    /\ state_vars = EmptyMap
    /\ functions = [k \in {} |-> "native_fail"]

\* ExecutionContext::set_state, for a context of at most `max` bindings
set_state(name, value, max) ==
    /\ call = NoCall
    /\ Cardinality(DOMAIN state_vars \cup {name}) <= max
    /\ state_vars' = map_insert(state_vars, name, value)
    /\ UNCHANGED << functions, call >>

\* ExecutionContext::register_function
register_function(name, func) ==
    /\ call = NoCall
    /\ functions' = map_insert(functions, name, func)
    /\ UNCHANGED << state_vars, call >>

\* An evaluation that, when it fails, leaves the context without its bindings.
Evaluate_clearing_on_error(expr) ==
    /\ call' = [kind |-> "evaluate", expr |-> expr,
                out |-> evaluate(expr, [state_vars |-> state_vars, functions |-> functions],
                                 << >>)]
    /\ state_vars' = IF call'.out.res.ok THEN state_vars ELSE EmptyMap
    /\ UNCHANGED functions

\* Evaluator::new(context) followed by evaluate(expr): the context is moved into
\* the evaluator and read, never written.
Evaluate(expr) ==
    /\ call' = [kind |-> "evaluate", expr |-> expr,
                out |-> evaluate(expr, [state_vars |-> state_vars, functions |-> functions],
                                 << >>)]
    /\ UNCHANGED << state_vars, functions >>

(***************************************************************************)
(* ProgramModel (crates/core/src/model.rs)                                 *)
(***************************************************************************)

\* ProgramModel::new: the three maps are empty.
ProgramModel_new ==
    [state_vars |-> << >>, functions |-> << >>, mutation_graph |-> << >>]

\* An add_function that keeps the mutation set a function already has.
add_function_keeping_first(func) ==
    /\ model' = [model EXCEPT
                     !.mutation_graph =
                         IF func.name \in DOMAIN model.mutation_graph
                           THEN model.mutation_graph
                           ELSE map_insert(model.mutation_graph, func.name, func.mutates),
                     !.functions = map_insert(model.functions, func.name, func)]
    /\ UNCHANGED << analysis, reported >>

\* ProgramModel::add_state_var
add_state_var(var) ==
    /\ model' = [model EXCEPT !.state_vars = map_insert(model.state_vars, var.name, var)]
    /\ UNCHANGED << analysis, reported >>

\* ProgramModel::add_function
add_function(func) ==
    /\ model' = [model EXCEPT
                     !.mutation_graph = map_insert(model.mutation_graph, func.name, func.mutates),
                     !.functions = map_insert(model.functions, func.name, func)]
    /\ UNCHANGED << analysis, reported >>

(***************************************************************************)
(* AAContext (crates/core/src/account_abstraction.rs)                      *)
(***************************************************************************)

s_validation == << "v", "a", "l", "i", "d", "a", "t", "i", "o", "n" >>
s_execution  == << "e", "x", "e", "c", "u", "t", "i", "o", "n" >>
s_settlement == << "s", "e", "t", "t", "l", "e", "m", "e", "n", "t" >>

ExecutionPhase == {"Validation", "Execution", "Settlement"}

\* ExecutionPhase::as_str; Display (to_string) writes the same text.
as_str(phase) ==
    CASE phase = "Validation" -> s_validation
      [] phase = "Execution"  -> s_execution
      [] phase = "Settlement" -> s_settlement

\* AAContext::default
AAContext_default ==
    /\ current_phase = "None"
    /\ layer_state = [l \in {} |-> EmptyMap]
    /\ phase_snapshots = [p \in {} |-> EmptyMap]

\* AAContext::set_phase
set_phase(phase) ==
    /\ current_phase' = phase
    /\ UNCHANGED << layer_state, phase_snapshots >>

\* A snapshot_phase that keeps a single slot, whatever the phase.
snapshot_phase_single_slot(phase) ==
    /\ phase_snapshots' = map_insert(phase_snapshots, s_validation, layer_state)
    /\ UNCHANGED << current_phase, layer_state >>

\* AAContext::snapshot_phase: the snapshot is a clone of the live map.
snapshot_phase(phase) ==
    /\ phase_snapshots' = map_insert(phase_snapshots, as_str(phase), layer_state)
    /\ UNCHANGED << current_phase, layer_state >>

\* AAContext::get_layer_var: self.layer_state.get(layer)?.get(var)
get_layer_var(layers, layer, var) ==
    IF map_get(layers, layer) = << >> THEN << >>
    ELSE map_get(layers[layer], var)

\* A set_layer_var that replaces the whole map of the layer.
set_layer_var_replacing_layer(layer, var, value) ==
    /\ layer_state' = map_insert(layer_state, layer, map_insert([v \in {} |-> 0], var, value))
    /\ UNCHANGED << current_phase, phase_snapshots >>

\* AAContext::set_layer_var: entry(layer).or_default().insert(var, value)
set_layer_var(layer, var, value) ==
    /\ layer_state' =
         LET entry == IF layer \in DOMAIN layer_state THEN layer_state[layer]
                                                      ELSE [v \in {} |-> 0]
         IN  map_insert(layer_state, layer, map_insert(entry, var, value))
    /\ UNCHANGED << current_phase, phase_snapshots >>

\* AAContext::get_phase_snapshot
get_phase_snapshot(snapshots, phase) == map_get(snapshots, as_str(phase))

\* AAContext::get_layer_var_at_phase:
\* self.phase_snapshots.get(phase.as_str())?.get(layer)?.get(var)
get_layer_var_at_phase(snapshots, phase, layer, var) ==
    IF map_get(snapshots, as_str(phase)) = << >> THEN << >>
    ELSE get_layer_var(snapshots[as_str(phase)], layer, var)

(***************************************************************************)
(* Threat-model validator (crates/core/src/threat_model.rs): DSLSandbox    *)
(***************************************************************************)

s_abs == << "a", "b", "s" >>
s_mod == << "m", "o", "d" >>
s_div == << "d", "i", "v" >>
s_add == << "a", "d", "d" >>
s_sub == << "s", "u", "b" >>
s_mul == << "m", "u", "l" >>
s_and == << "a", "n", "d" >>
s_or == << "o", "r" >>
s_not == << "n", "o", "t" >>

\* ThreatResult<()>
ThreatOk == [ok |-> TRUE, err |-> NoError]
ThreatErr(kind, msg) == [ok |-> FALSE, err |-> [kind |-> kind, arg |-> msg]]

SandboxEscapeDetected(msg) == ThreatErr("SandboxEscapeDetected", msg)

\* let forbidden_prefixes = ["file_", "io_", "extern_", "unsafe_"]
forbidden_prefixes ==
    << << "f", "i", "l", "e", "_" >>, << "i", "o", "_" >>,
       << "e", "x", "t", "e", "r", "n", "_" >>,
       << "u", "n", "s", "a", "f", "e", "_" >> >>

\* let allowed_functions = [...]
allowed_functions ==
    << s_sum, s_len, s_min, s_max, s_abs, s_mod, s_div, s_add, s_sub, s_mul, s_and,
       s_or, s_not >>

\* A prefix test on the name as written, without lower-casing it.
has_forbidden_prefix_as_written(name, prefixes) ==
    \E i \in 1..Len(prefixes) : starts_with(name, prefixes[i])

\* name.to_lowercase().starts_with(prefix), for some prefix of the list
has_forbidden_prefix(name, prefixes) ==
    \E i \in 1..Len(prefixes) : starts_with(to_lowercase(name), prefixes[i])

\* allowed_functions.contains(&name.as_str())
is_allowed_function(name) ==
    \E i \in 1..Len(allowed_functions) : allowed_functions[i] = name

msg_variable == << "f", "o", "r", "b", "i", "d", "d", "e", "n", " ", "v", "a", "r", "i", "a", "b", "l", "e", " ", "n", "a", "m", "e", ":", " " >>
msg_layer_variable ==
    << "f", "o", "r", "b", "i", "d", "d", "e", "n", " ", "l", "a", "y", "e", "r", "/", "v", "a", "r", "i", "a", "b", "l", "e", " ", "n", "a", "m", "e", ":", " " >>
msg_phase_layer_variable ==
    << "f", "o", "r", "b", "i", "d", "d", "e", "n", " ", "p", "h", "a", "s", "e", "/", "l", "a", "y", "e", "r", "/", "v", "a", "r", "i", "a", "b", "l", "e", " " >>
    \o << "n", "a", "m", "e", ":", " " >>
msg_function == << "f", "o", "r", "b", "i", "d", "d", "e", "n", " ", "f", "u", "n", "c", "t", "i", "o", "n", " ", "c", "a", "l", "l", ":", " " >>

\* DSLSandbox::check_expression_recursive
RECURSIVE check_expression_recursive(_, _)
RECURSIVE check_each(_, _, _)

\* for e in exprs { check_expression_recursive(e, forbidden_prefixes)?; } Ok(())
check_each(exprs, forbidden, i) ==
    IF i > Len(exprs) THEN ThreatOk
    ELSE LET r == check_expression_recursive(exprs[i], forbidden) IN
         IF ~r.ok THEN r ELSE check_each(exprs, forbidden, i + 1)

check_expression_recursive(expr, forbidden) ==
    CASE expr.tag = "Var" ->
           IF has_forbidden_prefix(expr.name, forbidden)
             THEN SandboxEscapeDetected(msg_variable \o expr.name)
             ELSE ThreatOk
      [] expr.tag = "LayerVar" ->
           IF has_forbidden_prefix(expr.layer, forbidden)
              \/ has_forbidden_prefix(expr.var, forbidden)
             THEN SandboxEscapeDetected(msg_layer_variable \o qualified(expr.layer, expr.var))
             ELSE ThreatOk
      [] expr.tag = "FunctionCall" ->
           IF ~is_allowed_function(expr.name)
             THEN SandboxEscapeDetected(msg_function \o expr.name)
             ELSE check_each(expr.args, forbidden, 1)
      [] expr.tag = "BinaryOp" -> check_each(<< expr.left, expr.right >>, forbidden, 1)
      [] expr.tag = "Logical" -> check_each(<< expr.left, expr.right >>, forbidden, 1)
      [] expr.tag = "Not" -> check_expression_recursive(expr.expr, forbidden)
      [] expr.tag = "Tuple" -> check_each(expr.exprs, forbidden, 1)
      [] expr.tag = "PhaseQualifiedVar" ->
           IF has_forbidden_prefix(expr.phase, forbidden)
              \/ has_forbidden_prefix(expr.layer, forbidden)
              \/ has_forbidden_prefix(expr.var, forbidden)
             THEN SandboxEscapeDetected(
                    msg_phase_layer_variable
                    \o qualified3(expr.phase, expr.layer, expr.var))
             ELSE ThreatOk
      [] expr.tag = "PhaseConstraint" ->
           check_expression_recursive(expr.constraint, forbidden)
      [] expr.tag = "CrossPhaseRelation" ->
           check_each(<< expr.expr1, expr.expr2 >>, forbidden, 1)
      [] expr.tag \in {"Boolean", "Int"} -> ThreatOk

\* DSLSandbox::validate_expression
validate_expression(expr) == check_expression_recursive(expr, forbidden_prefixes)

\* A call of DSLSandbox::validate_expression
ValidateExpression(expr) ==
    sandbox' = [kind |-> "validate", expr |-> expr, out |-> validate_expression(expr)]

(***************************************************************************)
(* Threat-model validator: TamperDetector.  DefaultHasher is SipHash-1-3   *)
(* with both keys zero; a 64-bit word is 4 limbs, least significant first. *)
(***************************************************************************)

\* The 64-bit words, the state (v0, v1, v2, v3) and the hasher.  The hasher's
\* operations are functions on these sets.
Word == [1..4 -> 0..LimbMax]
SipState == [1..4 -> Word]
Bytes == Seq(0..255)
Hasher == [v : SipState, tail : Bytes, length : Nat]

\* Bitwise exclusive or of two 16-bit limbs.
xor16[a \in 0..LimbMax, b \in 0..LimbMax] ==
    IF a = 0 THEN b
    ELSE IF b = 0 THEN a
    ELSE ((a + b) % 2) + 2 * xor16[a \div 2, b \div 2]

\* u64 `^`
xor64[x \in Word, y \in Word] == [i \in 1..4 |-> xor16[x[i], y[i]]]

\* u64 wrapping_add
wrapping_add[x \in Word, y \in Word] ==
    LET s1 == x[1] + y[1]
        s2 == x[2] + y[2] + (s1 \div 2^16)
        s3 == x[3] + y[3] + (s2 \div 2^16)
        s4 == x[4] + y[4] + (s3 \div 2^16)
    IN  << s1 % 2^16, s2 % 2^16, s3 % 2^16, s4 % 2^16 >>

\* u64 rotate_left
rotate_left[x \in Word, b \in 0..63] ==
    LET q == b \div 16
        r == b % 16
        limb(i) == x[((i + 7 - q) % 4) + 1]
    IN  [i \in 1..4 |-> ((limb(i) * 2^r) % 2^16) + (limb(i - 1) \div 2^(16 - r))]

\* A SipRound, in its four steps; each step is applied to the value of the
\* step before.
\* v0 += v1; v2 += v3
round_add_13[v \in SipState] ==
    << wrapping_add[v[1], v[2]], v[2], wrapping_add[v[3], v[4]], v[4] >>

\* v1 <<<= 13; v1 ^= v0; v0 <<<= 32; v3 <<<= 16; v3 ^= v2
round_mix_13[v \in SipState] ==
    << rotate_left[v[1], 32], xor64[rotate_left[v[2], 13], v[1]],
       v[3], xor64[rotate_left[v[4], 16], v[3]] >>

\* v0 += v3; v2 += v1
round_add_31[v \in SipState] ==
    << wrapping_add[v[1], v[4]], v[2], wrapping_add[v[3], v[2]], v[4] >>

\* v3 <<<= 21; v3 ^= v0; v1 <<<= 17; v1 ^= v2; v2 <<<= 32
round_mix_31[v \in SipState] ==
    << v[1], xor64[rotate_left[v[2], 17], v[3]],
       rotate_left[v[3], 32], xor64[rotate_left[v[4], 21], v[1]] >>

sip_round[v \in SipState] == round_mix_31[round_add_31[round_mix_13[round_add_13[v]]]]

\* Sip13Rounds::c_rounds: one round
c_rounds[v \in SipState] == sip_round[v]

\* Sip13Rounds::d_rounds: three rounds
d_rounds[v \in SipState] == sip_round[sip_round[sip_round[v]]]

\* The 64-bit word of up to 8 bytes, little-endian.
word_of[bytes \in Bytes] ==
    LET byte(i) == IF i <= Len(bytes) THEN bytes[i] ELSE 0
    IN  [j \in 1..4 |-> byte(2 * j - 1) + 256 * byte(2 * j)]

\* v3 ^= m
xor_v3[v \in SipState, m \in Word] == << v[1], v[2], v[3], xor64[v[4], m] >>

\* v0 ^= m
xor_v0[v \in SipState, m \in Word] == << xor64[v[1], m], v[2], v[3], v[4] >>

\* v3 ^= m; c_rounds; v0 ^= m
compress[v \in SipState, m \in Word] == xor_v0[c_rounds[xor_v3[v, m]], m]

\* DefaultHasher::new(): keys (0, 0) xored into "somepseudorandomlygeneratedbytes".
DefaultHasher_new ==
    [v |-> << << 25973, 28787, 28005, 29551 >>,     \* 0x736f6d6570736575
              << 28525, 28260, 29281, 25711 >>,     \* 0x646f72616e646f6d
              << 29281, 28261, 26469, 27769 >>,     \* 0x6c7967656e657261
              << 25971, 31092, 25698, 29797 >> >>,  \* 0x7465646279746573
     tail |-> << >>,
     length |-> 0]

\* Hasher::write: the bytes are consumed as 8-byte little-endian words.
write[hasher \in Hasher, bytes \in Bytes] ==
    IF bytes = << >> THEN hasher
    ELSE LET tail == Append(hasher.tail, Head(bytes))
         IN  write[IF Len(tail) = 8
                     THEN [v |-> compress[hasher.v, word_of[tail]], tail |-> << >>,
                           length |-> hasher.length + 1]
                     ELSE [v |-> hasher.v, tail |-> tail, length |-> hasher.length + 1],
                   Tail(bytes)]

\* The last word: the pending bytes, and the length's low byte on top.
last_word[hasher \in Hasher] ==
    [j \in 1..4 |-> word_of[hasher.tail][j]
                    + (IF j = 4 THEN 256 * (hasher.length % 256) ELSE 0)]

\* v2 ^= 0xff
xor_v2_ff[v \in SipState] == << v[1], v[2], xor64[v[3], << 255, 0, 0, 0 >>], v[4] >>

\* v0 ^ v1 ^ v2 ^ v3
xor_all[v \in SipState] == xor64[xor64[v[1], v[2]], xor64[v[3], v[4]]]

\* Hasher::finish
finish[hasher \in Hasher] ==
    xor_all[d_rounds[xor_v2_ff[compress[hasher.v, last_word[hasher]]]]]

\* str::as_bytes on ASCII text
as_bytes(str) == [i \in 1..Len(str) |-> Code(str[i])]

\* <String as Hash>::hash: write_str writes the bytes, then 0xFF.
hash_str[str \in Str, hasher \in Hasher] == write[write[hasher, as_bytes(str)], << 255 >>]

\* <String as Ord>::cmp: byte-wise lexicographic order; -1, 0 or 1.
RECURSIVE str_cmp(_, _)
str_cmp(a, b) ==
    IF a = << >> THEN (IF b = << >> THEN 0 ELSE -1)
    ELSE IF b = << >> THEN 1
    ELSE IF Code(Head(a)) < Code(Head(b)) THEN -1
    ELSE IF Code(Head(a)) > Code(Head(b)) THEN 1
    ELSE str_cmp(Tail(a), Tail(b))

\* Insertion of `x` after the elements not greater than it.
RECURSIVE sort(_)
insert_sorted[x \in Str, sorted \in Seq(Str)] ==
    IF sorted = << >> THEN << x >>
    ELSE IF str_cmp(x, Head(sorted)) < 0 THEN << x >> \o sorted
    ELSE << Head(sorted) >> \o insert_sorted[x, Tail(sorted)]

\* A sort that leaves the list in the order it was given.
sort_as_given(checks) == checks

\* Vec<String>::sort (stable, ascending)
sort(checks) ==
    IF checks = << >> THEN << >>
    ELSE insert_sorted[checks[Len(checks)], sort(SubSeq(checks, 1, Len(checks) - 1))]

\* for check in sorted_checks { check.hash(&mut hasher); }
hash_each[checks \in Seq(Str), hasher \in Hasher] ==
    IF checks = << >> THEN hasher
    ELSE hash_each[Tail(checks), hash_str[Head(checks), hasher]]

HexDigits == << "0", "1", "2", "3", "4", "5", "6", "7", "8", "9", "a", "b", "c", "d", "e", "f" >>

\* format!("{:x}"): the hexadecimal digits of a u64, most significant first,
\* without leading zeros ("0" for zero).
RECURSIVE strip_zeros(_)
strip_zeros(digits) ==
    IF Len(digits) > 1 /\ Head(digits) = "0" THEN strip_zeros(Tail(digits)) ELSE digits

lower_hex[word \in Word] ==
    strip_zeros([i \in 1..16 |->
                   LET limb == word[4 - ((i - 1) \div 4)]
                       nibble == (limb \div (16 ^ (3 - ((i - 1) % 4)))) % 16
                   IN  HexDigits[nibble + 1]])

\* format!("{:016x}"): zero-padded on the left to a width of 16.
format_016x[word \in Word] ==
    LET digits == lower_hex[word]
    IN  [i \in 1..(16 - Len(digits)) |-> "0"] \o digits

\* TamperDetector::compute_hash
compute_hash(checks) ==
    format_016x[finish[hash_each[sort(checks), DefaultHasher_new]]]

s_INVAR_HASH == << "I", "N", "V", "A", "R", "_", "H", "A", "S", "H", ":", " " >>

msg_hash_mismatch ==
    << "h", "a", "s", "h", " ", "m", "i", "s", "m", "a", "t", "c", "h", ":", " ", "g", "e", "n", "e", "r", "a", "t", "e", "d", " " >>
    \o << "c", "o", "d", "e", " ", "d", "o", "e", "s", " ", "n", "o", "t", " ", "c", "o", "n", "t", "a", "i", "n", " " >>
    \o << "e", "x", "p", "e", "c", "t", "e", "d", " ", "I", "N", "V", "A", "R", "_", "H", "A", "S", "H" >>

\* A verification that accepts any text carrying an INVAR_HASH tag.
verify_tampering_any_hash(generated_code, expected_checks) ==
    IF ~contains[generated_code, s_INVAR_HASH]
      THEN ThreatErr("TamperDetected", msg_hash_mismatch)
      ELSE ThreatOk

\* TamperDetector::verify_tampering
verify_tampering(generated_code, expected_checks) ==
    LET expected_hash == compute_hash(expected_checks)
        hash_pattern == s_INVAR_HASH \o expected_hash
    IN  IF ~contains[generated_code, hash_pattern]
          THEN ThreatErr("TamperDetected", msg_hash_mismatch)
          ELSE ThreatOk

\* A call of TamperDetector::compute_hash; the calls made so far are kept.
ComputeHash(checks) ==
    tamper' = [kind |-> "hash",
               calls |-> (IF tamper = NoCall THEN << >> ELSE tamper.calls)
                         \o << [checks |-> checks, hash |-> compute_hash(checks)] >>]

\* A call of TamperDetector::verify_tampering
VerifyTampering(generated_code, expected_checks) ==
    tamper' = [kind |-> "verify", text |-> generated_code, checks |-> expected_checks,
               out |-> verify_tampering(generated_code, expected_checks)]

(***************************************************************************)
(* #[invariant_enforced] (crates/generator/solana_macro/src/lib.rs)        *)
(***************************************************************************)

\* A hash that is the XOR of the hashes of the check strings.
compute_check_hash_xor(checks) ==
    LET RECURSIVE xor_each(_)
        xor_each(list) ==
            IF list = << >> THEN << 0, 0, 0, 0 >>
            ELSE xor64[finish[hash_str[Head(list), DefaultHasher_new]], xor_each(Tail(list))]
    IN  format_016x[xor_each(checks)]

\* compute_check_hash
compute_check_hash(checks) ==
    LET hasher == DefaultHasher_new
        sorted_checks == sort(checks)
        hash == finish[hash_each[sorted_checks, hasher]]
    IN  format_016x[hash]

\* format!("// INVAR_HASH: {}", check_hash) in generate_check_statements
hash_comment(check_hash) == << "/", "/", " " >> \o s_INVAR_HASH \o check_hash

\* A call of compute_check_hash.
ComputeCheckHash(checks) ==
    tamper' = [kind |-> "check_hash", checks |-> checks, hash |-> compute_check_hash(checks)]

(***************************************************************************)
(* DependencyGraph (crates/ir/src/ast.rs)                                  *)
(***************************************************************************)

\* DependencyGraph::new, and no transitive_mutations call made yet.
DependencyGraph_new ==
    [call_graph |-> << >>, mutation_sources |-> << >>, read_deps |-> << >>, last |-> NoCall]

\* map.entry(key).or_default().push(item)
entry_push(map, key, item) ==
    map_insert(map, key, IF key \in DOMAIN map THEN Append(map[key], item) ELSE << item >>)

\* DependencyGraph::add_call
add_call(caller, callee) ==
    /\ analysis' = [analysis EXCEPT !.call_graph = entry_push(analysis.call_graph, caller, callee)]
    /\ UNCHANGED << model, reported >>

\* DependencyGraph::add_mutation
add_mutation(state_var, function) ==
    /\ analysis' = [analysis EXCEPT
                      !.mutation_sources = entry_push(analysis.mutation_sources, state_var, function)]
    /\ UNCHANGED << model, reported >>

\* DependencyGraph::add_read
add_read(function, state_var) ==
    /\ analysis' = [analysis EXCEPT !.read_deps = entry_push(analysis.read_deps, function, state_var)]
    /\ UNCHANGED << model, reported >>

\* The members of a finite set of strings in the order of a BTreeSet.
in_order(S) ==
    [k \in 1..Cardinality(S) |->
        CHOOSE x \in S : Cardinality({ y \in S : str_cmp(y, x) < 0 }) = k - 1]

\* A first loop that stops at the callees of the function asked about.
visit_one_level(graph, queue, visited) ==
    { queue[i] : i \in 1..Len(queue) }
    \cup UNION { { graph.call_graph[f][i] : i \in 1..Len(graph.call_graph[f]) } :
                 f \in { queue[i] : i \in 1..Len(queue) } \cap DOMAIN graph.call_graph }

\* The first loop of transitive_mutations: the last function of the queue is
\* popped and, when it was not visited before, its callees are pushed.
RECURSIVE visit(_, _, _)
visit(graph, queue, visited) ==
    IF queue = << >> THEN visited
    ELSE LET current == queue[Len(queue)]
             rest == SubSeq(queue, 1, Len(queue) - 1)
         IN  IF current \in visited THEN visit(graph, rest, visited)
             ELSE visit(graph,
                        rest \o (IF current \in DOMAIN graph.call_graph
                                   THEN graph.call_graph[current] ELSE << >>),
                        visited \cup { current })

\* sources.contains(&visited_fn)
vec_contains(vec, x) == \E i \in 1..Len(vec) : vec[i] = x

\* The second loop: for every visited function in order, the state variables
\* in order whose sources contain it.
RECURSIVE collect(_, _, _)
collect(graph, fns, i) ==
    IF i > Len(fns) THEN << >>
    ELSE SelectSeq(in_order(DOMAIN graph.mutation_sources),
                   LAMBDA state_var : vec_contains(graph.mutation_sources[state_var], fns[i]))
         \o collect(graph, fns, i + 1)

\* DependencyGraph::transitive_mutations
transitive_mutations(graph, func) ==
    collect(graph, in_order(visit(graph, << func >>, {})), 1)

\* A call of transitive_mutations.
TransitiveMutations(func) ==
    /\ analysis' = [analysis EXCEPT
                      !.last = [kind |-> "transitive_mutations", func |-> func,
                                out |-> transitive_mutations(analysis, func)]]
    /\ UNCHANGED << model, reported >>

(***************************************************************************)
(* Input pools                                                             *)
(***************************************************************************)

MaxBindings == 1
MaxResolveBindings == 3

s_n          == << "n" >>
s_m          == << "m" >>
s_f          == << "f" >>
s_account    == << "a", "c", "c", "o", "u", "n", "t" >>
s_bundler    == << "b", "u", "n", "d", "l", "e", "r" >>

\* 64-bit payloads
n64(lo) == << lo, 0, 0, 0 >>

\* Signed 128-bit literals at the width boundaries of Int.
i128_zero           == << 0, 0, 0, 0, 0, 0, 0, 0 >>
i128_one            == << 1, 0, 0, 0, 0, 0, 0, 0 >>
i128_minus_one      == [i \in 1..8 |-> LimbMax]
i128_i64_max        == << LimbMax, LimbMax, LimbMax, SignBit - 1, 0, 0, 0, 0 >>
i128_u64_max        == << LimbMax, LimbMax, LimbMax, LimbMax, 0, 0, 0, 0 >>
i128_u64_max_plus_1 == << 0, 0, 0, 0, 1, 0, 0, 0 >>
i128_max            == << LimbMax, LimbMax, LimbMax, LimbMax,
                          LimbMax, LimbMax, LimbMax, SignBit - 1 >>
i128_i64_min        == << 0, 0, 0, SignBit, LimbMax, LimbMax, LimbMax, LimbMax >>
i128_i64_min_minus_1 ==
    << LimbMax, LimbMax, LimbMax, SignBit - 1, LimbMax, LimbMax, LimbMax, LimbMax >>
i128_minus_2_pow_64 == << 0, 0, 0, 0, LimbMax, LimbMax, LimbMax, LimbMax >>
i128_min            == << 0, 0, 0, 0, 0, 0, 0, SignBit >>

Literals ==
    { i128_zero, i128_one, i128_minus_one, i128_i64_max, i128_u64_max,
      i128_u64_max_plus_1, i128_max, i128_i64_min, i128_i64_min_minus_1,
      i128_minus_2_pow_64, i128_min }

\* Values a driver binds.
BoundValues == { Bool(TRUE), U64(n64(0)), U64(n64(1)), I64(n64(1)), Address(<< >>) }

\* Keys a driver binds in the general evaluator runs.
BoundKeys == { s_n, qualified(s_account, s_n) }

\* Operands of the compound expressions.
Operands ==
    { Boolean(FALSE), Boolean(TRUE), IntLit(i128_zero), IntLit(i128_minus_one),
      IntLit(i128_u64_max_plus_1), Var(s_n), Var(s_m), LayerVar(s_account, s_n) }

\* Sequences over S of length at most 2.
UpTo2(S) == { << >> } \cup { << a >> : a \in S } \cup { << a, b >> : a \in S, b \in S }

Calls ==
    { FunctionCall(s_min, args) : args \in UpTo2({ IntLit(i128_zero), Var(s_n) }) }
    \cup { FunctionCall(s_f, << Var(s_m) >>) }

Flat ==
    { IntLit(v) : v \in Literals }
    \cup Operands
    \cup { PhaseQualifiedVar(s_validation, s_account, s_n) }
    \cup { Not(e) : e \in Operands }
    \cup { PhaseConstraint(s_validation, e) : e \in Operands }
    \cup { Tuple(es) : es \in UpTo2({ Boolean(FALSE), Var(s_n), Var(s_m) }) }
    \cup { BinaryOp(l, op, r) : l \in Operands, op \in BinaryOps, r \in Operands }
    \cup { CrossPhaseRelation(s_validation, l, s_execution, r, op) :
             l \in Operands, op \in {"Eq", "Neq", "Lt"}, r \in Operands }
    \cup { Logical(l, op, r) : l \in Operands, op \in LogicalOps, r \in Operands }
    \cup Calls

\* Logical nodes whose operands are themselves compound.
Nested ==
    { Logical(l, op, r) :
        l \in { Not(Var(s_n)), Logical(Var(s_n), "Or", Boolean(FALSE)),
                BinaryOp(Var(s_n), "Lt", IntLit(i128_one)) },
        op \in LogicalOps,
        r \in { Logical(Var(s_m), "And", Boolean(TRUE)), Not(Var(s_m)),
                FunctionCall(s_f, << Var(s_m) >>),
                BinaryOp(Boolean(TRUE), "Lt", IntLit(i128_zero)) } }

Exprs == Flat \cup Nested

(***************************************************************************)
(* Specification of the evaluator                                          *)
(***************************************************************************)

CheckerIdle == TypeChecker_new

AAIdle == AAContext_default /\ observed = [p \in {} |-> EmptyMap]

EvalIdle == ExecutionContext_new /\ call = NoCall

ThreatIdle == sandbox = NoCall /\ tamper = NoCall

ToolIdle ==
    /\ generated = NoCall
    /\ verifier = NoCall
    /\ security = NoCall
    /\ build = NoCall
    /\ parsed = NoCall

ModelIdle ==
    /\ model = ProgramModel_new
    /\ analysis = DependencyGraph_new
    /\ reported = NoCall

Init == EvalIdle /\ CheckerIdle /\ AAIdle /\ ThreatIdle /\ ToolIdle /\ ModelIdle

EvalFrame == UNCHANGED << checkerVars, aaVars, sandbox, tamper, toolVars, modelVars >>

Next ==
    \/ \E k \in BoundKeys, v \in BoundValues : set_state(k, v, MaxBindings) /\ EvalFrame
    \/ \E func \in Natives : register_function(s_min, func) /\ EvalFrame
    \/ \E e \in Exprs : call = NoCall /\ Evaluate(e) /\ EvalFrame

Spec == Init /\ [][Next]_vars

(***************************************************************************)
(* Specification of variable resolution: every qualified key may be bound  *)
(***************************************************************************)

ResolveKeys ==
    { s_n, qualified(s_account, s_n), qualified(s_bundler, s_n),
      qualified3(s_validation, s_account, s_n) }

ResolveValues == { Bool(TRUE), U64(n64(0)), U64(n64(1)) }

ResolveExprs ==
    { Var(s_n) }
    \cup { LayerVar(l, s_n) : l \in {s_account, s_bundler} }
    \cup { PhaseQualifiedVar(p, l, s_n) :
             p \in {s_validation, s_execution}, l \in {s_account, s_bundler} }

NextResolve ==
    \/ \E k \in ResolveKeys, v \in ResolveValues :
         set_state(k, v, MaxResolveBindings) /\ EvalFrame
    \/ \E e \in ResolveExprs : call = NoCall /\ Evaluate(e) /\ EvalFrame

SpecResolve == Init /\ [][NextResolve]_vars

(***************************************************************************)
(* Specification of the checked pipeline: an expression is type-checked    *)
(* and, when accepted, evaluated                                           *)
(***************************************************************************)

MaxTypedBindings == 2

TypedDecls == ({ s_n } \X { "Bool", "U64", "I64", "Address" }) \cup { << s_m, "U64" >> }

\* state_vars tables (name -> type_name) of program models
Programs ==
    { [k \in { s_n } |-> << "U", "i", "n", "t", "6", "4" >>],
      [k \in { s_n, s_m } |-> IF k = s_n THEN << "b", "o", "o", "l" >>
                                         ELSE << "m", "a", "p" >>] }

TypedKeys == { s_n, s_m, qualified(s_account, s_n) }

TypedValues == { Bool(TRUE), U64(n64(1)), I64(n64(LimbMax)), Address(<< "0", "x" >>) }

TypedOperands ==
    { Boolean(TRUE), IntLit(i128_one), IntLit(i128_minus_one), Var(s_n), Var(s_m),
      LayerVar(s_account, s_n) }

TypedBools == { Boolean(TRUE), Var(s_n), BinaryOp(Var(s_n), "Lt", Var(s_m)) }

TypedExprs ==
    TypedOperands
    \cup { BinaryOp(l, op, r) : l \in TypedOperands, op \in {"Eq", "Lt", "Gte"},
                                r \in TypedOperands }
    \cup { Logical(l, op, r) : l \in TypedBools, op \in LogicalOps, r \in TypedBools }
    \cup { Not(e) : e \in TypedBools }
    \cup { Tuple(<< >>), Tuple(<< Var(s_n) >>), Tuple(<< Var(s_n), Var(s_m) >>),
           BinaryOp(Tuple(<< Var(s_n), Boolean(TRUE) >>), "Lt", Var(s_m)) }
    \cup { FunctionCall(s_min, << Var(s_n), Var(s_m) >>),
           FunctionCall(s_min, << Var(s_n), LayerVar(s_account, s_n) >>),
           FunctionCall(s_min, << Var(s_n) >>),
           FunctionCall(s_len, << Var(s_n) >>),
           FunctionCall(s_sum, << Var(s_m) >>),
           BinaryOp(FunctionCall(s_min, << Var(s_n), Var(s_m) >>), "Lte",
                    LayerVar(s_account, s_n)) }
    \cup { PhaseQualifiedVar(s_validation, s_account, s_n),
           PhaseConstraint(s_validation, Boolean(TRUE)),
           CrossPhaseRelation(s_validation, Var(s_n), s_execution, Var(s_n), "Eq") }

TypedFrame == UNCHANGED << aaVars, sandbox, tamper, toolVars, modelVars >>

NextTyped ==
    \/ \E d \in TypedDecls :
         call = NoCall /\ register_state_var(d[1], d[2])
         /\ UNCHANGED evalVars /\ TypedFrame
    \/ \E program \in Programs :
         call = NoCall /\ load_from_program(program)
         /\ UNCHANGED evalVars /\ TypedFrame
    \/ \E k \in TypedKeys, v \in TypedValues :
         set_state(k, v, MaxTypedBindings) /\ UNCHANGED checkerVars /\ TypedFrame
    \/ register_function(s_min, "native_min") /\ UNCHANGED checkerVars /\ TypedFrame
    \/ \E e \in TypedExprs :
         call = NoCall /\ TypeCheck(e)
         /\ UNCHANGED << state_vars, functions >> /\ TypedFrame
    \/ /\ call.kind = "checked"
       /\ call.check.ok
       /\ Evaluate(call.expr)
       /\ UNCHANGED checkerVars /\ TypedFrame

SpecTyped == Init /\ [][NextTyped]_vars

(***************************************************************************)
(* Claims about the evaluator                                              *)
(***************************************************************************)

Evaluated == call.kind = "evaluate"

\* The context the evaluator of the recorded call was built on.
Ctx == [state_vars |-> state_vars, functions |-> functions]

\* Whether the log shows evaluate entered at or below the child `i` of the root.
Entered(log, i) == \E j \in 1..Len(log) : Len(log[j]) >= 1 /\ log[j][1] = i

\* C1: short-circuit.  When the left operand of a Logical node evaluates to a
\* value that decides the result (it coerces to false under &&, to true under
\* ||), evaluate returns Bool(false), resp. Bool(true), and never enters the
\* right operand, even one whose evaluation would fail; when the left operand
\* does not decide, the right operand is entered and its error, if any, is
\* what evaluate returns.
C1_ShortCircuit ==
    (Evaluated /\ call.expr.tag = "Logical") =>
        LET l == evaluate(call.expr.left, Ctx, << 1 >>).res
            r == evaluate(call.expr.right, Ctx, << 2 >>).res
        IN  l.ok =>
              IF call.expr.op = "And" /\ ~to_bool(l.val)
                THEN call.out.res = Ok(Bool(FALSE)) /\ ~Entered(call.out.log, 2)
              ELSE IF call.expr.op = "Or" /\ to_bool(l.val)
                THEN call.out.res = Ok(Bool(TRUE)) /\ ~Entered(call.out.log, 2)
              ELSE /\ Entered(call.out.log, 2)
                   /\ ~r.ok => call.out.res = r

\* A short-circuited && whose left operand is not a Boolean literal and whose
\* right operand is an unbound variable.
C1_Witness ==
    /\ Evaluated
    /\ call.expr.tag = "Logical"
    /\ call.expr.op = "And"
    /\ call.expr.left = IntLit(i128_zero)
    /\ call.expr.right = Var(s_m)
    /\ s_m \notin DOMAIN state_vars
    /\ call.out.res = Ok(Bool(FALSE))

\* The integer a Value carries, as a signed 128-bit pattern.
integer_of(v) ==
    CASE v.t = "I64"  -> sign_extend(v.n)
      [] v.t = "U64"  -> zero_extend(v.n)
      [] v.t = "U128" -> v.n

\* The width the type checker infers for Int(val).
width_of(val) ==
    IF is_negative(val) THEN "I64" ELSE IF leq_u64_max(val) THEN "U64" ELSE "U128"

\* C4: no wrapped integer.  evaluate(Int(v)) returns a Value whose integer is v,
\* carried as I64 when v < 0, as U64 when 0 <= v <= 2^64-1 and as U128 above.
C4_NoWrappedInteger ==
    (Evaluated /\ call.expr.tag = "Int") =>
        /\ call.out.res.ok
        /\ call.out.res.val.t = width_of(call.expr.val)
        /\ integer_of(call.out.res.val) = call.expr.val

\* C5: == and != on Values of different variants is a TypeError; a Bool is
\* returned only for operands of the same variant.
C5_EqualityNeedsSameVariant ==
    (/\ Evaluated
     /\ call.expr.tag \in {"BinaryOp", "CrossPhaseRelation"}
     /\ call.expr.op \in {"Eq", "Neq"}) =>
        LET l == IF call.expr.tag = "BinaryOp"
                   THEN evaluate(call.expr.left, Ctx, << 1 >>).res
                   ELSE evaluate(call.expr.expr1, Ctx, << 1 >>).res
            r == IF call.expr.tag = "BinaryOp"
                   THEN evaluate(call.expr.right, Ctx, << 2 >>).res
                   ELSE evaluate(call.expr.expr2, Ctx, << 2 >>).res
        IN  (l.ok /\ r.ok) =>
              /\ l.val.t # r.val.t => call.out.res = TypeError
              /\ call.out.res.ok => l.val.t = r.val.t

\* C6: qualified variables resolve from the most qualified key to the least
\* qualified one, and fail on the most qualified name; the binding of another
\* layer or phase is never read.
C6_Resolution ==
    Evaluated =>
        LET e == call.expr
            bound(k) == k \in DOMAIN state_vars
        IN  /\ e.tag = "LayerVar" =>
                 call.out.res =
                   IF bound(e.layer \o << ":", ":" >> \o e.var)
                     THEN Ok(state_vars[e.layer \o << ":", ":" >> \o e.var])
                   ELSE IF bound(e.var) THEN Ok(state_vars[e.var])
                   ELSE Err("UndefinedVariable", e.layer \o << ":", ":" >> \o e.var)
            /\ e.tag = "PhaseQualifiedVar" =>
                 call.out.res =
                   IF bound(e.phase \o << ":", ":" >> \o e.layer \o << ":", ":" >> \o e.var)
                     THEN Ok(state_vars[e.phase \o << ":", ":" >> \o e.layer
                                        \o << ":", ":" >> \o e.var])
                   ELSE IF bound(e.layer \o << ":", ":" >> \o e.var)
                     THEN Ok(state_vars[e.layer \o << ":", ":" >> \o e.var])
                   ELSE IF bound(e.var) THEN Ok(state_vars[e.var])
                   ELSE Err("UndefinedVariable",
                            e.phase \o << ":", ":" >> \o e.layer \o << ":", ":" >> \o e.var)

\* bundler::n evaluated where account::n and n are bound to different values and
\* bundler::n is not: the unqualified binding is the one returned.
C6_Witness ==
    /\ Evaluated
    /\ call.expr = LayerVar(s_bundler, s_n)
    /\ qualified(s_bundler, s_n) \notin DOMAIN state_vars
    /\ qualified(s_account, s_n) \in DOMAIN state_vars
    /\ s_n \in DOMAIN state_vars
    /\ state_vars[s_n] # state_vars[qualified(s_account, s_n)]
    /\ call.out.res = Ok(state_vars[s_n])

\* The checker the recorded call was made on.
Tc == [state_vars |-> tc_state_vars, functions |-> tc_functions]

\* A key of the context that a variable of declared name `name` is read through:
\* the name itself or a layer-qualified form of it.
KeysOf(name) ==
    { name } \cup { k \in DOMAIN state_vars :
                      Len(k) > Len(name) + 2
                      /\ SubSeq(k, Len(k) - Len(name) - 1, Len(k)) = << ":", ":" >> \o name }

\* Every bound value has the variant of the type declared for its variable.
ContextMatchesTypes ==
    \A name \in DOMAIN tc_state_vars :
        \A k \in KeysOf(name) \cap DOMAIN state_vars :
            state_vars[k].t = tc_state_vars[name]

\* C3: type safety.  An expression the type checker accepts evaluates without
\* TypeError in every context whose bound values have the variant of the type
\* declared for their variable.
C3_TypeSafety ==
    (/\ Evaluated
     /\ check_expr(call.expr, Tc).ok
     /\ ContextMatchesTypes) =>
        call.out.res # TypeError

\* An accepted relational comparison of a layer-qualified variable, read through
\* its qualified key, with a plain variable: it evaluates to a Bool.
C3_Witness ==
    /\ Evaluated
    /\ call.expr = BinaryOp(LayerVar(s_account, s_n), "Lt", Var(s_m))
    /\ check_expr(call.expr, Tc).ok
    /\ ContextMatchesTypes
    /\ qualified(s_account, s_n) \in DOMAIN state_vars
    /\ call.out.res.ok
    /\ call.out.res.val.t = "Bool"

(***************************************************************************)
(* Specification of the phase context: layers are written, phases entered  *)
(* and snapshots taken in any order                                        *)
(***************************************************************************)

s_balance == << "b", "a", "l", "a", "n", "c", "e" >>
s_nonce   == << "n", "o", "n", "c", "e" >>

\* (layer, var, json number) triples a driver writes.
Writes ==
    { << s_account, s_balance, 1000 >>, << s_account, s_balance, 500 >>,
      << s_account, s_nonce, 42 >>, << s_bundler, s_nonce, 42 >> }

\* (layer, var) pairs a driver reads, written or not.
Slots == { s_account, s_bundler } \X { s_balance, s_nonce }

\* What get_layer_var returns now for every slot.
Live == [sl \in Slots |-> get_layer_var(layer_state, sl[1], sl[2])]

AAFrame == UNCHANGED << evalVars, checkerVars, sandbox, tamper, toolVars, modelVars >>

NextAA ==
    \/ \E phase \in ExecutionPhase : set_phase(phase) /\ UNCHANGED observed /\ AAFrame
    \/ \E w \in Writes : set_layer_var(w[1], w[2], w[3]) /\ UNCHANGED observed /\ AAFrame
    \/ \E phase \in ExecutionPhase :
         snapshot_phase(phase) /\ observed' = map_insert(observed, phase, Live) /\ AAFrame

SpecAA == Init /\ [][NextAA]_vars

(***************************************************************************)
(* Claims about the phase context                                          *)
(***************************************************************************)

\* C2: snapshot immutability.  Once snapshot_phase(P) has been called, and until
\* it is called for P again, get_layer_var_at_phase(P, layer, var) is, for
\* every layer and var, what get_layer_var(layer, var) returned when the
\* snapshot was taken, whatever set_layer_var, set_phase and snapshot_phase(Q),
\* Q # P, did since; a phase never snapshotted reads as None.
C2_SnapshotImmutable ==
    \A phase \in ExecutionPhase : \A sl \in Slots :
        get_layer_var_at_phase(phase_snapshots, phase, sl[1], sl[2]) =
          IF phase \in DOMAIN observed THEN observed[phase][sl] ELSE << >>

\* The sequence of test_phase_tracking, followed by a snapshot of another phase:
\* the validation snapshot still reads 1000 where the live value is 500.
C2_Witness ==
    /\ current_phase = "Execution"
    /\ "Execution" \in DOMAIN observed
    /\ get_layer_var(layer_state, s_account, s_balance) = << 500 >>
    /\ get_layer_var_at_phase(phase_snapshots, "Execution", s_account, s_balance) = << 500 >>
    /\ get_layer_var_at_phase(phase_snapshots, "Validation", s_account, s_balance) = << 1000 >>
    /\ get_layer_var_at_phase(phase_snapshots, "Validation", s_bundler, s_nonce) = << >>
    /\ get_layer_var(layer_state, s_bundler, s_nonce) = << 42 >>

(***************************************************************************)
(* Specification of cross-phase evaluation: a driver keeps an AAContext,   *)
(* snapshots it under phases, binds the evaluator's context and evaluates  *)
(* cross-phase relations                                                   *)
(***************************************************************************)

MaxCrossBindings == 2

CrossWrites ==
    { << s_account, s_balance, 1000 >>, << s_account, s_balance, 500 >>,
      << s_account, s_nonce, 42 >> }

CrossKeys ==
    { s_balance, qualified(s_account, s_balance),
      qualified3(s_validation, s_account, s_balance),
      qualified3(s_execution, s_account, s_balance) }

CrossValues == { U64(n64(1000)), U64(n64(500)) }

CrossOperands == { LayerVar(s_account, s_balance), LayerVar(s_account, s_nonce) }

CrossExprs ==
    { CrossPhaseRelation(s_validation, l, s_execution, r, op) :
        l \in CrossOperands, r \in CrossOperands, op \in BinaryOps }

CrossFrame == UNCHANGED << checkerVars, sandbox, tamper, toolVars, modelVars >>

NextCross ==
    \/ \E w \in CrossWrites :
         /\ call = NoCall
         /\ set_layer_var(w[1], w[2], w[3])
         /\ UNCHANGED << observed, evalVars >> /\ CrossFrame
    \/ \E phase \in {"Validation", "Execution"} :
         /\ call = NoCall
         /\ snapshot_phase(phase)
         /\ observed' = map_insert(observed, phase, Live)
         /\ UNCHANGED evalVars /\ CrossFrame
    \/ \E k \in CrossKeys, v \in CrossValues :
         set_state(k, v, MaxCrossBindings) /\ UNCHANGED aaVars /\ CrossFrame
    \/ \E e \in CrossExprs :
         call = NoCall /\ Evaluate(e) /\ UNCHANGED aaVars /\ CrossFrame

SpecCross == Init /\ [][NextCross]_vars

\* The Value of a JSON number of a layer map.
json_value(j) == U64(n64(j))

\* What a LayerVar reads in the state snapshotted under the phase named `name`.
read_at(name, e) ==
    IF \E phase \in ExecutionPhase : as_str(phase) = name
      THEN get_layer_var_at_phase(phase_snapshots,
                                  CHOOSE phase \in ExecutionPhase : as_str(phase) = name,
                                  e.layer, e.var)
      ELSE << >>

\* C7: cross-phase evaluation.  When CrossPhaseRelation{P1, e1, P2, e2, op} over
\* layer variables evaluates to a value, and e1 is recorded in the snapshot of
\* P1 and e2 in the snapshot of P2, the value is the comparison of what e1 was
\* at P1 with what e2 was at P2.
C7_CrossPhaseReadsSnapshots ==
    (/\ Evaluated
     /\ call.expr.tag = "CrossPhaseRelation"
     /\ call.expr.expr1.tag = "LayerVar"
     /\ call.expr.expr2.tag = "LayerVar"
     /\ read_at(call.expr.phase1, call.expr.expr1) # << >>
     /\ read_at(call.expr.phase2, call.expr.expr2) # << >>
     /\ call.out.res.ok) =>
        call.out.res =
          eval_binary_op(json_value(read_at(call.expr.phase1, call.expr.expr1)[1]),
                         call.expr.op,
                         json_value(read_at(call.expr.phase2, call.expr.expr2)[1]))

(***************************************************************************)
(* Specification of the sandbox: expressions are validated one by one      *)
(***************************************************************************)

\* Wrapper levels put around the atoms of the validated expressions.
MaxSandboxDepth == 2

SandboxNames ==
    { s_n, << "f", "i", "l", "e", "_", "h" >>, << "F", "I", "L", "E", "_", "h" >>,
      << "i", "o", "_" >>, << "x", "i", "o", "_", "b" >>, << "E", "x", "t", "e", "r", "n", "_", "a" >>,
      << "u", "n", "s", "a", "f", "e", "_", "v" >> }

SandboxFunctions ==
    { allowed_functions[i] : i \in 1..Len(allowed_functions) }
    \cup { << "s", "y", "s", "t", "e", "m", "_", "c", "a", "l", "l" >>,
           << "S", "u", "m" >>, << "f", "i", "l", "e", "_", "r", "e", "a", "d" >> }

SandboxAtoms ==
    { Boolean(TRUE), IntLit(i128_one) }
    \cup { Var(name) : name \in SandboxNames }
    \cup { LayerVar(layer, var) :
             layer \in { s_account, << "i", "o", "_", "l" >> },
             var \in { s_n, << "E", "x", "t", "e", "r", "n", "_", "a" >> } }
    \cup { PhaseQualifiedVar(phase, layer, var) :
             phase \in { s_validation, << "U", "N", "S", "A", "F", "E", "_", "p" >> },
             layer \in { s_account },
             var \in { s_n, << "u", "n", "s", "a", "f", "e", "_", "v" >> } }
    \cup { PhaseQualifiedVar(s_validation, << "F", "i", "l", "e", "_", "l" >>, s_n) }
    \cup { FunctionCall(f, << >>) : f \in SandboxFunctions }

\* One more level around each expression of S; the sibling, where there is one,
\* is a harmless variable.
Wrap(S) ==
    { Not(e) : e \in S }
    \cup { PhaseConstraint(<< "f", "i", "l", "e", "_", "p" >>, e) : e \in S }
    \cup { BinaryOp(e, "Lt", Var(s_n)) : e \in S }
    \cup { BinaryOp(Var(s_n), "Eq", e) : e \in S }
    \cup { Logical(e, "And", Var(s_n)) : e \in S }
    \cup { Logical(Var(s_n), "Or", e) : e \in S }
    \cup { Tuple(<< e >>) : e \in S }
    \cup { Tuple(<< Var(s_n), e >>) : e \in S }
    \cup { FunctionCall(s_sum, << e >>) : e \in S }
    \cup { FunctionCall(s_max, << Var(s_n), e >>) : e \in S }
    \cup { CrossPhaseRelation(s_validation, e, s_execution, Var(s_n), "Gte") : e \in S }
    \cup { CrossPhaseRelation(<< "e", "x", "t", "e", "r", "n", "_", "p" >>, Var(s_n), s_execution, e, "Gte") : e \in S }

\* The atoms that are nested: one accepted and one rejected atom of each kind.
SandboxCore ==
    { Boolean(TRUE), Var(s_n), Var(<< "x", "i", "o", "_", "b" >>),
      Var(<< "F", "I", "L", "E", "_", "h" >>),
      LayerVar(s_account, s_n), LayerVar(<< "i", "o", "_", "l" >>, s_n),
      PhaseQualifiedVar(s_validation, s_account, << "u", "n", "s", "a", "f", "e", "_", "v" >>),
      FunctionCall(s_min, << >>),
      FunctionCall(<< "s", "y", "s", "t", "e", "m", "_", "c", "a", "l", "l" >>, << >>) }

RECURSIVE SandboxLevel(_)
SandboxLevel(d) == IF d = 0 THEN SandboxCore ELSE Wrap(SandboxLevel(d - 1))

SandboxExprs == SandboxAtoms \cup UNION { SandboxLevel(d) : d \in 1..MaxSandboxDepth }

NextSandbox ==
    /\ sandbox = NoCall
    /\ \E e \in SandboxExprs : ValidateExpression(e)
    /\ UNCHANGED << evalVars, checkerVars, aaVars, tamper, toolVars, modelVars >>

SpecSandbox == Init /\ [][NextSandbox]_vars

(***************************************************************************)
(* Claims about the sandbox                                                *)
(***************************************************************************)

\* The variable names of Var, LayerVar and PhaseQualifiedVar nodes at any depth.
RECURSIVE var_names(_)
var_names(e) ==
    CASE e.tag \in {"Var"} -> { e.name }
      [] e.tag \in {"LayerVar", "PhaseQualifiedVar"} -> { e.var }
      [] e.tag \in {"BinaryOp", "Logical"} -> var_names(e.left) \cup var_names(e.right)
      [] e.tag = "Not" -> var_names(e.expr)
      [] e.tag \in {"Tuple"} -> UNION { var_names(e.exprs[i]) : i \in 1..Len(e.exprs) }
      [] e.tag = "FunctionCall" -> UNION { var_names(e.args[i]) : i \in 1..Len(e.args) }
      [] e.tag = "PhaseConstraint" -> var_names(e.constraint)
      [] e.tag = "CrossPhaseRelation" -> var_names(e.expr1) \cup var_names(e.expr2)
      [] OTHER -> {}

\* The names of the FunctionCall nodes at any depth.
RECURSIVE fn_names(_)
fn_names(e) ==
    CASE e.tag \in {"BinaryOp", "Logical"} -> fn_names(e.left) \cup fn_names(e.right)
      [] e.tag = "Not" -> fn_names(e.expr)
      [] e.tag \in {"Tuple"} -> UNION { fn_names(e.exprs[i]) : i \in 1..Len(e.exprs) }
      [] e.tag = "FunctionCall" ->
           { e.name } \cup UNION { fn_names(e.args[i]) : i \in 1..Len(e.args) }
      [] e.tag = "PhaseConstraint" -> fn_names(e.constraint)
      [] e.tag = "CrossPhaseRelation" -> fn_names(e.expr1) \cup fn_names(e.expr2)
      [] OTHER -> {}

Validated == sandbox.kind = "validate"

\* C8: sandbox monotonicity.  An expression validate_expression accepts has, at
\* every depth, no variable whose lower-cased name starts with file_, io_,
\* extern_ or unsafe_, and calls only functions of the allow-list.
C8_SandboxMonotone ==
    (Validated /\ sandbox.out.ok) =>
        /\ \A name \in var_names(sandbox.expr) :
             \A prefix \in { << "f", "i", "l", "e", "_" >>, << "i", "o", "_" >>,
                             << "e", "x", "t", "e", "r", "n", "_" >>,
                             << "u", "n", "s", "a", "f", "e", "_" >> } :
                 ~(/\ Len(name) >= Len(prefix)
                   /\ \A i \in 1..Len(prefix) : to_lowercase(name)[i] = prefix[i])
        /\ \A f \in fn_names(sandbox.expr) :
             f \in { s_sum, s_len, s_min, s_max, s_abs, s_mod, s_div, s_add, s_sub, s_mul,
                     s_and, s_or, s_not }

\* An accepted expression two levels deep that calls an allowed function on a
\* variable whose name holds a forbidden prefix elsewhere than at its start.
C8_Witness ==
    /\ Validated
    /\ sandbox.out = ThreatOk
    /\ sandbox.expr =
         Not(FunctionCall(s_sum, << Var(<< "x", "i", "o", "_", "b" >>) >>))

(***************************************************************************)
(* Specification of the tamper detector: two lists are hashed, or a text   *)
(* is verified against a list                                              *)
(***************************************************************************)

\* Longest list of checks.
MaxChecks == 2

s_a  == << "a" >>
s_b  == << "b" >>
s_ba == << "b", "a" >>
s_B  == << "B" >>
s_supply == << "s", "u", "p", "p", "l", "y", " ", ">", " ", "0" >>

CheckStrings == { s_a, s_b, s_ba, s_B, s_supply }

RECURSIVE ListsOf(_, _)
ListsOf(S, len) ==
    IF len = 0 THEN { << >> }
    ELSE { Append(l, x) : l \in ListsOf(S, len - 1), x \in S }

CheckLists == UNION { ListsOf(CheckStrings, len) : len \in 0..MaxChecks }

\* Lists whose hashes the verified texts carry.
EmbeddedLists == { << >>, << s_a >>, << s_b, s_ba >> }

s_comment == << "/", "/", " " >>
s_code    == << "f", "n", " ", "f", "(", ")", " ", "{", "}" >>

\* ASCII upper-casing of the hexadecimal digits.
upper_hex(hex) ==
    [i \in 1..Len(hex) |-> IF Code(hex[i]) \in 97..102 THEN Chr(Code(hex[i]) - 32) ELSE hex[i]]

\* The comment line that carries a hash.
hash_line(hex) == s_comment \o s_INVAR_HASH \o hex

TextsOf[hex \in Str, other \in Str] ==
    { hash_line(hex),
      s_INVAR_HASH \o hex,
      s_code \o << "\n" >> \o hash_line(hex) \o << "\n" >>,
      hash_line(hex) \o << "0" >>,
      hash_line(hex) \o << " ", "*", "/" >>,
      hash_line(other) \o << "\n" >> \o hash_line(hex),
      hash_line(upper_hex(hex)),
      hash_line(SubSeq(hex, 1, 15)),
      hash_line(SubSeq(hex, 2, 16)),
      s_comment \o << "I", "N", "V", "A", "R", "_", "H", "A", "S", "H", ":" >> \o hex,
      s_comment \o hex }

Texts ==
    { << >>, s_code, s_comment \o s_INVAR_HASH }
    \cup UNION { TextsOf[compute_hash(l), compute_hash(<< s_B >>)] : l \in EmbeddedLists }

TamperFrame == UNCHANGED << evalVars, checkerVars, aaVars, sandbox, toolVars, modelVars >>

NextHash ==
    \/ /\ tamper = NoCall
       /\ \E checks \in CheckLists : ComputeHash(checks)
       /\ TamperFrame
    \/ /\ tamper.kind = "hash"
       /\ Len(tamper.calls) = 1
       /\ \E checks \in CheckLists : ComputeHash(checks)
       /\ TamperFrame
    \/ /\ tamper = NoCall
       /\ \E text \in Texts, checks \in CheckLists : VerifyTampering(text, checks)
       /\ TamperFrame

SpecHash == Init /\ [][NextHash]_vars

(***************************************************************************)
(* Claims about the tamper detector                                        *)
(***************************************************************************)

Hashed == tamper.kind = "hash"

\* How many times `x` occurs in `list`.
count(list, x) == Cardinality({ i \in 1..Len(list) : list[i] = x })

\* The two lists hold the same strings the same number of times.
same_multiset(l1, l2) ==
    /\ Len(l1) = Len(l2)
    /\ \A i \in 1..Len(l1) : count(l1, l1[i]) = count(l2, l1[i])

\* C9: tamper hash order-invariance.  Two lists of checks that are the same
\* multiset have the same compute_hash, and every compute_hash is a string of
\* exactly 16 lower-case hexadecimal digits.
C9_HashOrderInvariant ==
    Hashed =>
        /\ \A i \in 1..Len(tamper.calls) :
             /\ Len(tamper.calls[i].hash) = 16
             /\ \A k \in 1..Len(tamper.calls[i].hash) :
                  tamper.calls[i].hash[k] \in
                    { "0", "1", "2", "3", "4", "5", "6", "7", "8", "9",
                      "a", "b", "c", "d", "e", "f" }
        /\ \A i \in 1..Len(tamper.calls), j \in 1..Len(tamper.calls) :
             same_multiset(tamper.calls[i].checks, tamper.calls[j].checks) =>
                 tamper.calls[i].hash = tamper.calls[j].hash

\* ["ba", "b"] and ["b", "ba"] hashed one after the other: one hash, and one
\* whose leading digit is the padding zero.
C9_Witness ==
    /\ Hashed
    /\ Len(tamper.calls) = 2
    /\ tamper.calls[1].checks = << s_ba, s_b >>
    /\ tamper.calls[2].checks = << s_b, s_ba >>
    /\ tamper.calls[1].hash = tamper.calls[2].hash
    /\ tamper.calls[1].hash[1] = "0"
    /\ tamper.calls[1].hash[2] # "0"

Verified == tamper.kind = "verify"

\* The lines of a text.
RECURSIVE lines_of(_)
lines_of(text) ==
    IF \E i \in 1..Len(text) : text[i] = "\n"
      THEN LET i == CHOOSE k \in 1..Len(text) :
                      text[k] = "\n" /\ \A m \in 1..(k - 1) : text[m] # "\n"
           IN  { SubSeq(text, 1, i - 1) } \cup lines_of(SubSeq(text, i + 1, Len(text)))
      ELSE { text }

\* The positions at which `p` occurs in `line`.
occurrences(line, p) ==
    { i \in 1..(Len(line) - Len(p) + 1) :
        \A k \in 1..Len(p) : line[i + k - 1] = p[k] }

\* The word that follows position `from` of a line, up to the next space.
word_after(line, from) ==
    LET stops == { k \in (from + 1)..Len(line) : line[k] = " " }
        last  == IF stops = {} THEN Len(line)
                 ELSE (CHOOSE k \in stops : \A m \in stops : k <= m) - 1
    IN  SubSeq(line, from + 1, last)

\* The hex an INVAR_HASH line carries: the word after its first tag.
hex_of(line) ==
    LET first == CHOOSE m \in occurrences(line, s_INVAR_HASH) :
                     \A n \in occurrences(line, s_INVAR_HASH) : m <= n
    IN  word_after(line, first + Len(s_INVAR_HASH) - 1)

\* The hex carried by the INVAR_HASH lines of a text.
hexes_of(text) ==
    { hex_of(line) : line \in { l \in lines_of(text) : occurrences(l, s_INVAR_HASH) # {} } }

wrapping_neg(val) ==
    LET inv == [i \in 1..Len(val) |-> LimbMax - val[i]]
        low == { i \in 1..Len(val) : inv[i] # LimbMax }
    IN  IF low = {} THEN [i \in 1..Len(val) |-> 0]
        ELSE LET k == CHOOSE i \in low : \A j \in low : i <= j
             IN  [i \in 1..Len(val) |->
                     IF i < k THEN 0 ELSE IF i = k THEN inv[i] + 1 ELSE inv[i]]

\* Quotient and remainder of an unsigned payload by ten, from the top limb down.
RECURSIVE div10(_, _)
div10(val, i) ==
    IF i > Len(val) THEN [q |-> << >>, r |-> 0]
    ELSE LET above == div10(val, i + 1)
             cur   == above.r * (LimbMax + 1) + val[i]
         IN  [q |-> << cur \div 10 >> \o above.q, r |-> cur % 10]

\* The decimal digits of an unsigned payload (none for zero).
RECURSIVE digits(_)
digits(val) ==
    IF is_zero(val) THEN << >>
    ELSE LET d == div10(val, 1) IN digits(d.q) \o << Chr(48 + d.r) >>

\* write!(f, "{}", i) for i: i128
fmt_i128(val) ==
    IF is_zero(val) THEN << "0" >>
    ELSE IF is_negative(val) THEN << "-" >> \o digits(wrapping_neg(val))
    ELSE digits(val)

\* write!(f, "{}", n) for n: usize
RECURSIVE fmt_usize(_)
fmt_usize(n) ==
    IF n < 10 THEN << Chr(48 + n) >> ELSE fmt_usize(n \div 10) \o << Chr(48 + (n % 10)) >>

\* Display for BinaryOp
fmt_BinaryOp(op) ==
    CASE op = "Eq"  -> << "=", "=" >>
      [] op = "Neq" -> << "!", "=" >>
      [] op = "Lt"  -> << "<" >>
      [] op = "Gt"  -> << ">" >>
      [] op = "Lte" -> << "<", "=" >>
      [] op = "Gte" -> << ">", "=" >>

\* Display for LogicalOp
fmt_LogicalOp(op) ==
    CASE op = "And" -> << "&", "&" >>
      [] op = "Or"  -> << "|", "|" >>

\* Display for Expression
RECURSIVE fmt(_)
RECURSIVE fmt_list(_, _)

\* for (i, e) in exprs.iter().enumerate() { if i > 0 { ", " } e }
fmt_list(exprs, i) ==
    IF i > Len(exprs) THEN << >>
    ELSE (IF i > 1 THEN << ",", " " >> ELSE << >>) \o fmt(exprs[i]) \o fmt_list(exprs, i + 1)

fmt(expr) ==
    CASE expr.tag = "Boolean" -> IF expr.b THEN << "t", "r", "u", "e" >> ELSE << "f", "a", "l", "s", "e" >>
      [] expr.tag = "Var" -> expr.name
      [] expr.tag = "LayerVar" -> qualified(expr.layer, expr.var)
      [] expr.tag = "PhaseQualifiedVar" -> qualified3(expr.phase, expr.layer, expr.var)
      [] expr.tag = "PhaseConstraint" ->
            << "(" >> \o fmt(expr.constraint) \o << " ", "@", " " >> \o expr.phase \o << ")" >>
      [] expr.tag = "CrossPhaseRelation" ->
            << "(" >> \o fmt(expr.expr1) \o << "[" >> \o expr.phase1 \o << "]", " " >> \o fmt_BinaryOp(expr.op)
                  \o << " " >> \o fmt(expr.expr2) \o << "[" >> \o expr.phase2 \o << "]", ")" >>
      [] expr.tag = "Int" -> fmt_i128(expr.val)
      [] expr.tag = "BinaryOp" ->
            << "(" >> \o fmt(expr.left) \o << " " >> \o fmt_BinaryOp(expr.op) \o << " " >> \o fmt(expr.right) \o << ")" >>
      [] expr.tag = "Logical" ->
            << "(" >> \o fmt(expr.left) \o << " " >> \o fmt_LogicalOp(expr.op) \o << " " >> \o fmt(expr.right) \o << ")" >>
      [] expr.tag = "Not" -> << "!", "(" >> \o fmt(expr.expr) \o << ")" >>
      [] expr.tag = "FunctionCall" -> expr.name \o << "(" >> \o fmt_list(expr.args, 1) \o << ")" >>
      [] expr.tag = "Tuple" -> << "(" >> \o fmt_list(expr.exprs, 1) \o << ")" >>

(***************************************************************************)
(* Code generators (crates/generator/{solana,evm,move}/src/generator.rs)   *)
(***************************************************************************)

\* str::to_uppercase on ASCII text: 'a'..'z' map to 'A'..'Z'.
to_uppercase(s) ==
    [i \in 1..Len(s) |-> IF Code(s[i]) \in 97..122 THEN Chr(Code(s[i]) - 32) ELSE s[i]]

\* Option<String>::None
None == << >>

\* `as u8`
as_u8(n) == n % 256

\* Ord::min
min(a, b) == IF a <= b THEN a ELSE b

\* SolanaGenerator::generate
SolanaGenerator_generate(program, invariants) ==
    LET assertions == [i \in 1..Len(invariants) |->
            << "a", "s", "s", "e", "r", "t", "!", "(" >> \o fmt(invariants[i].expression) \o << ",", " ", "\\", "\"", "I", "n", "v", "a", "r", "i", "a", "n", "t", " " >>
                \o invariants[i].name \o << " ", "v", "i", "o", "l", "a", "t", "e", "d", "\\", "\"", ")", ";" >>]
        code == << "/", "/", " ", "G", "e", "n", "e", "r", "a", "t", "e", "d", " ", "i", "n", "v", "a", "r", "i", "a", "n", "t", " ", "c" >> \o << "h", "e", "c", "k", "s", " ", "f", "o", "r", " " >> \o program.name \o << "\n", "/", "/", " " >>
                    \o fmt_usize(Len(assertions)) \o << " ", "i", "n", "v", "a", "r", "i", "a", "n", "t", "s", " ", "i", "n", "j", "e", "c", "t", "e", "d", "\n" >>
        coverage_percent ==
            IF program.functions = {} THEN 0 ELSE min(as_u8(Len(assertions)), 100)
    IN  [code |-> code, assertions |-> assertions, tests |-> None,
         coverage_percent |-> coverage_percent]

\* EvmGenerator::generate
EvmGenerator_generate(program, invariants) ==
    LET assertions == [i \in 1..Len(invariants) |->
            << "r", "e", "q", "u", "i", "r", "e", "(" >> \o fmt(invariants[i].expression) \o << ",", " ", "\\", "\"", "I", "n", "v", "a", "r", "i", "a", "n", "t", ":", " " >>
                \o invariants[i].name \o << "\\", "\"", ")", ";" >>]
        code == << "/", "/", " ", "G", "e", "n", "e", "r", "a", "t", "e", "d", " ", "S", "o", "l", "i", "d", "i", "t", "y", " ", "i", "n" >> \o << "v", "a", "r", "i", "a", "n", "t", " ", "c", "h", "e", "c", "k", "s", " ", "f", "o", "r", " " >> \o program.name \o << "\n", "/", "/", " " >>
                    \o fmt_usize(Len(assertions)) \o << " ", "c", "h", "e", "c", "k", "s", "\n" >>
    IN  [code |-> code, assertions |-> assertions, tests |-> None, coverage_percent |-> 0]

\* MoveGenerator::generate
MoveGenerator_generate(program, invariants) ==
    LET assertions == [i \in 1..Len(invariants) |->
            << "a", "s", "s", "e", "r", "t", "!", "(" >> \o fmt(invariants[i].expression) \o << ",", " ", "E", "_", "I", "N", "V", "A", "R", "I", "A", "N", "T", "_" >>
                \o to_uppercase(invariants[i].name) \o << ")", ";" >>]
        code == << "/", "/", " ", "G", "e", "n", "e", "r", "a", "t", "e", "d", " ", "M", "o", "v", "e", " ", "i", "n", "v", "a", "r", "i" >> \o << "a", "n", "t", " ", "c", "h", "e", "c", "k", "s", " ", "f", "o", "r", " " >> \o program.name \o << "\n", "/", "/", " " >>
                    \o fmt_usize(Len(assertions)) \o << " ", "a", "s", "s", "e", "r", "t", "i", "o", "n", "s", "\n" >>
    IN  [code |-> code, assertions |-> assertions, tests |-> None, coverage_percent |-> 0]

\* CodeGenerator::chain of the three implementations
Chains == {"solana", "evm", "move"}

\* A call of CodeGenerator::generate on the generator of `chain`.
Generate(chain, program, invariants) ==
    generated' =
        [kind |-> "generate", chain |-> chain, program |-> program, invariants |-> invariants,
         out |-> CASE chain = "solana" -> SolanaGenerator_generate(program, invariants)
                   [] chain = "evm"    -> EvmGenerator_generate(program, invariants)
                   [] chain = "move"   -> MoveGenerator_generate(program, invariants)]

(***************************************************************************)
(* InjectionVerifier::verify_coverage (crates/core/src/threat_model.rs)    *)
(***************************************************************************)

s_Invariant == << "/", "/", " ", "I", "n", "v", "a", "r", "i", "a", "n", "t", ":", " " >>

msg_check_not_found == << "i", "n", "v", "a", "r", "i", "a", "n", "t", " ", "c", "h", "e", "c", "k", " ", "n", "o", "t", " ", "f", "o", "u", "n" >> \o << "d", " ", "i", "n", " ", "g", "e", "n", "e", "r", "a", "t", "e", "d", " ", "c", "o", "d", "e", ":", " " >>

ReParseVerificationFailed(msg) == ThreatErr("ReParseVerificationFailed", msg)

RECURSIVE verify_coverage_from(_, _, _)

\* A coverage check that looks for the check string without its comment tag.
verify_coverage_from_untagged(generated_code, expected_checks, i) ==
    IF i > Len(expected_checks) THEN ThreatOk
    ELSE IF ~contains[generated_code, expected_checks[i]]
      THEN ReParseVerificationFailed(msg_check_not_found \o expected_checks[i])
      ELSE verify_coverage_from(generated_code, expected_checks, i + 1)

\* for check in expected_checks { if !generated_code.contains(..) { return Err(..) } } Ok(())
verify_coverage_from(generated_code, expected_checks, i) ==
    IF i > Len(expected_checks) THEN ThreatOk
    ELSE IF ~contains[generated_code, s_Invariant \o expected_checks[i]]
      THEN ReParseVerificationFailed(msg_check_not_found \o expected_checks[i])
      ELSE verify_coverage_from(generated_code, expected_checks, i + 1)

\* InjectionVerifier::verify_coverage
verify_coverage(generated_code, expected_checks) ==
    verify_coverage_from(generated_code, expected_checks, 1)

\* A call of InjectionVerifier::verify_coverage.
VerifyCoverage(generated_code, expected_checks) ==
    verifier' = [kind |-> "coverage", text |-> generated_code, checks |-> expected_checks,
                 out |-> verify_coverage(generated_code, expected_checks)]

(***************************************************************************)
(* Specification of code generation: each generator on small programs      *)
(***************************************************************************)

MaxInvariants == 2

s_vault == << "v", "a", "u", "l", "t" >>
s_Token == << "T", "o", "k", "e", "n" >>
s_deposit == << "d", "e", "p", "o", "s", "i", "t" >>
s_positive == << "p", "o", "s", "i", "t", "i", "v", "e" >>
s_capped == << "c", "a", "p", "p", "e", "d" >>

\* ProgramModel, as the fields the generators read.
GenPrograms ==
    [name : {s_vault, s_Token}, functions : {{}, {s_deposit}}]

\* Invariant, as the fields the generators read.
GenInvariants ==
    { [name |-> s_positive, expression |-> BinaryOp(Var(s_balance), "Gt", IntLit(i128_zero))],
      [name |-> s_capped,
       expression |-> Logical(BinaryOp(Var(s_balance), "Lte", IntLit(i128_min)), "Or",
                              Not(FunctionCall(s_len, << Var(s_account) >>)))],
      [name |-> s_nonce, expression |-> Boolean(TRUE)],
      [name |-> s_balance,
       expression |-> PhaseConstraint(s_execution,
                          BinaryOp(LayerVar(s_account, s_balance), "Neq", IntLit(i128_u64_max_plus_1)))] }

RECURSIVE InvariantLists(_)
InvariantLists(n) ==
    IF n = 0 THEN { << >> }
    ELSE LET shorter == InvariantLists(n - 1)
         IN  shorter \cup { Append(l, inv) : l \in { s \in shorter : Len(s) = n - 1 },
                                             inv \in GenInvariants }

GenFrame ==
    UNCHANGED << evalVars, checkerVars, aaVars, sandbox, tamper,
                 verifier, security, build, parsed, modelVars >>

NextGen ==
    /\ generated = NoCall
    /\ \E chain \in Chains, program \in GenPrograms,
          invariants \in InvariantLists(MaxInvariants) :
            Generate(chain, program, invariants)
    /\ GenFrame

SpecGen == Init /\ [][NextGen]_vars

\* The check strings of a list of invariants: the text of each expression.
checks_of(invariants) == [i \in 1..Len(invariants) |-> fmt(invariants[i].expression)]

\* C11: the text produced by every generator carries one "// Invariant: <check>"
\* line per invariant and an "INVAR_HASH: <hex>" line with hex = compute_hash(checks),
\* so verify_coverage and verify_tampering both accept it for those checks.
C11_GeneratedTextAccepted ==
    generated.kind = "generate" =>
        /\ verify_coverage(generated.out.code, checks_of(generated.invariants)).ok
        /\ verify_tampering(generated.out.code, checks_of(generated.invariants)).ok

(***************************************************************************)
(* AttackPatternDB (crates/core/src/attack_patterns.rs)                    *)
(***************************************************************************)

\* AttackPatternDB::new: the patterns in the order of the BTreeMap's keys.
\* cvss_score is carried in tenths.
AttackPatternDB_new ==
<<
    [id |-> "access_control_bypass",
     name |-> << "A", "c", "c", "e", "s", "s", " ", "C", "o", "n", "t", "r", "o", "l", " ", "B", "y", "p", "a", "s", "s" >>,
     description |->
        << "A", "t", "t", "a", "c", "k", "e", "r", " ", "c", "i", "r", "c", "u", "m", "v", "e", "n", "t", "s", " ", "p", "e", "r" >> \o << "m", "i", "s", "s", "i", "o", "n", " ", "c", "h", "e", "c", "k", "s", " ", "t", "o", " ", "p", "e", "r", "f", "o", "r" >> \o << "m", " ", "p", "r", "i", "v", "i", "l", "e", "g", "e", "d", " ", "o", "p", "e", "r", "a", "t", "i", "o", "n", "s" >>,
     vulnerable_patterns |->
        << << "m", "i", "s", "s", "i", "n", "g", "_", "r", "e", "q", "u", "i", "r", "e", "(", "i", "s", "_", "o", "w", "n", "e", "r" >> \o << "(", ")", ")" >>,
           << "t", "x", ".", "o", "r", "i", "g", "i", "n", " ", "!", "=", " ", "m", "s", "g", ".", "s", "e", "n", "d", "e", "r" >>,
           << "n", "o", "_", "s", "i", "g", "n", "a", "t", "u", "r", "e", "_", "v", "a", "l", "i", "d", "a", "t", "i", "o", "n" >>,
           << "p", "u", "b", "l", "i", "c", "_", "f", "u", "n", "c", "t", "i", "o", "n", "_", "w", "i", "t", "h", "o", "u", "t", "_" >> \o << "a", "u", "t", "h" >> >>,
     defensive_invariants |->
        << << "o", "n", "l", "y", "_", "o", "w", "n", "e", "r", "_", "c", "a", "n", "_", "t", "r", "a", "n", "s", "f", "e", "r" >>,
           << "m", "u", "l", "t", "i", "s", "i", "g", "_", "r", "e", "q", "u", "i", "r", "e", "d", "_", "f", "o", "r", "_", "c", "r" >> \o << "i", "t", "i", "c", "a", "l", "_", "o", "p", "s" >>,
           << "a", "l", "l", "_", "p", "r", "i", "v", "i", "l", "e", "g", "e", "d", "_", "o", "p", "s", "_", "c", "h", "e", "c", "k" >> \o << "e", "d" >>,
           << "a", "u", "t", "h", "o", "r", "i", "z", "a", "t", "i", "o", "n", "_", "b", "e", "f", "o", "r", "e", "_", "s", "t", "a" >> \o << "t", "e", "_", "c", "h", "a", "n", "g", "e" >> >>,
     affected_chains |-> << "evm", "solana", "move" >>,
     cvss_score |-> 99],
    [id |-> "delegatecall_misuse",
     name |-> << "D", "e", "l", "e", "g", "a", "t", "e", "c", "a", "l", "l", " ", "t", "o", " ", "U", "n", "t", "r", "u", "s", "t", "e" >> \o << "d", " ", "C", "o", "d", "e" >>,
     description |->
        << "C", "o", "n", "t", "r", "a", "c", "t", " ", "d", "e", "l", "e", "g", "a", "t", "e", "c", "a", "l", "l", "s", " ", "t" >> \o << "o", " ", "a", "d", "d", "r", "e", "s", "s", " ", "t", "h", "a", "t", " ", "c", "a", "n", " ", "b", "e", " ", "c", "o" >> \o << "n", "t", "r", "o", "l", "l", "e", "d", " ", "b", "y", " ", "a", "t", "t", "a", "c", "k", "e", "r" >>,
     vulnerable_patterns |->
        << << "d", "e", "l", "e", "g", "a", "t", "e", "c", "a", "l", "l", "(", "a", "t", "t", "a", "c", "k", "e", "r", "_", "a", "d" >> \o << "d", "r", "e", "s", "s", ")" >>,
           << "d", "e", "l", "e", "g", "a", "t", "e", "c", "a", "l", "l", "_", "t", "o", "_", "u", "s", "e", "r", "_", "i", "n", "p" >> \o << "u", "t" >>,
           << "n", "o", "_", "v", "a", "l", "i", "d", "a", "t", "i", "o", "n", "_", "b", "e", "f", "o", "r", "e", "_", "d", "e", "l" >> \o << "e", "g", "a", "t", "e", "c", "a", "l", "l" >> >>,
     defensive_invariants |->
        << << "d", "e", "l", "e", "g", "a", "t", "e", "c", "a", "l", "l", "_", "t", "a", "r", "g", "e", "t", "_", "h", "a", "r", "d" >> \o << "c", "o", "d", "e", "d" >>,
           << "d", "e", "l", "e", "g", "a", "t", "e", "c", "a", "l", "l", "_", "t", "a", "r", "g", "e", "t", "_", "a", "u", "d", "i" >> \o << "t", "e", "d" >>,
           << "n", "o", "_", "d", "e", "l", "e", "g", "a", "t", "e", "c", "a", "l", "l", "_", "t", "o", "_", "u", "n", "t", "r", "u" >> \o << "s", "t", "e", "d" >>,
           << "d", "e", "l", "e", "g", "a", "t", "e", "c", "a", "l", "l", "_", "r", "e", "s", "u", "l", "t", "s", "_", "v", "a", "l" >> \o << "i", "d", "a", "t", "e", "d" >> >>,
     affected_chains |-> << "evm" >>,
     cvss_score |-> 98],
    [id |-> "flash_loan",
     name |-> << "F", "l", "a", "s", "h", " ", "L", "o", "a", "n", " ", "A", "t", "t", "a", "c", "k" >>,
     description |->
        << "A", "t", "t", "a", "c", "k", "e", "r", " ", "b", "o", "r", "r", "o", "w", "s", " ", "l", "a", "r", "g", "e", " ", "a" >> \o << "m", "o", "u", "n", "t", " ", "i", "n", " ", "s", "i", "n", "g", "l", "e", " ", "t", "r", "a", "n", "s", "a", "c", "t" >> \o << "i", "o", "n", " ", "t", "o", " ", "m", "a", "n", "i", "p", "u", "l", "a", "t", "e", " ", "p", "r", "i", "c", "e" >>,
     vulnerable_patterns |->
        << << "p", "r", "i", "c", "e", "_", "o", "r", "a", "c", "l", "e", "_", "s", "i", "n", "g", "l", "e", "_", "s", "o", "u", "r" >> \o << "c", "e" >>,
           << "n", "o", "_", "p", "r", "i", "c", "e", "_", "v", "a", "l", "i", "d", "a", "t", "i", "o", "n" >>,
           << "l", "e", "n", "d", "i", "n", "g", "_", "w", "i", "t", "h", "o", "u", "t", "_", "c", "o", "l", "l", "a", "t", "e", "r" >> \o << "a", "l", "_", "c", "h", "e", "c", "k" >> >>,
     defensive_invariants |->
        << << "p", "r", "i", "c", "e", "_", "f", "r", "o", "m", "_", "m", "u", "l", "t", "i", "p", "l", "e", "_", "s", "o", "u", "r" >> \o << "c", "e", "s" >>,
           << "c", "o", "l", "l", "a", "t", "e", "r", "a", "l", "_", "c", "h", "e", "c", "k", "_", "b", "e", "f", "o", "r", "e", "_" >> \o << "l", "e", "n", "d", "i", "n", "g" >>,
           << "p", "r", "i", "c", "e", "_", "d", "e", "v", "i", "a", "t", "i", "o", "n", "_", "l", "i", "m", "i", "t", "s" >>,
           << "n", "o", "_", "s", "a", "m", "e", "_", "b", "l", "o", "c", "k", "_", "o", "p", "e", "r", "a", "t", "i", "o", "n", "s" >> >>,
     affected_chains |-> << "evm" >>,
     cvss_score |-> 87],
    [id |-> "frontrunning",
     name |-> << "F", "r", "o", "n", "t", "r", "u", "n", "n", "i", "n", "g", " ", "/", " ", "M", "E", "V", " ", "E", "x", "t", "r", "a" >> \o << "c", "t", "i", "o", "n" >>,
     description |->
        << "A", "t", "t", "a", "c", "k", "e", "r", " ", "o", "b", "s", "e", "r", "v", "e", "s", " ", "p", "e", "n", "d", "i", "n" >> \o << "g", " ", "t", "r", "a", "n", "s", "a", "c", "t", "i", "o", "n", " ", "a", "n", "d", " ", "p", "l", "a", "c", "e", "s" >> \o << " ", "o", "w", "n", " ", "t", "r", "a", "n", "s", "a", "c", "t", "i", "o", "n", " ", "f", "i", "r", "s", "t" >>,
     vulnerable_patterns |->
        << << "p", "r", "i", "c", "e", "_", "d", "e", "p", "e", "n", "d", "s", "_", "o", "n", "_", "o", "r", "d", "e", "r" >>,
           << "s", "t", "a", "t", "e", "_", "v", "i", "s", "i", "b", "l", "e", "_", "i", "n", "_", "m", "e", "m", "p", "o", "o", "l" >>,
           << "n", "o", "_", "s", "l", "i", "p", "p", "a", "g", "e", "_", "p", "r", "o", "t", "e", "c", "t", "i", "o", "n" >> >>,
     defensive_invariants |->
        << << "s", "l", "i", "p", "p", "a", "g", "e", "_", "l", "i", "m", "i", "t", "s", "_", "e", "n", "f", "o", "r", "c", "e", "d" >>,
           << "a", "t", "o", "m", "i", "c", "_", "s", "w", "a", "p", "_", "n", "o", "_", "i", "n", "t", "e", "r", "m", "e", "d", "i" >> \o << "a", "t", "e", "_", "s", "t", "a", "t", "e", "s" >>,
           << "t", "i", "m", "e", "s", "t", "a", "m", "p", "_", "d", "e", "a", "d", "l", "i", "n", "e", "_", "c", "h", "e", "c", "k" >> \o << "s" >>,
           << "s", "o", "r", "t", "e", "d", "_", "b", "y", "_", "p", "r", "i", "o", "r", "i", "t", "y", "_", "n", "o", "t", "_", "o" >> \o << "r", "d", "e", "r" >> >>,
     affected_chains |-> << "evm" >>,
     cvss_score |-> 75],
    [id |-> "integer_overflow",
     name |-> << "I", "n", "t", "e", "g", "e", "r", " ", "O", "v", "e", "r", "f", "l", "o", "w", "/", "U", "n", "d", "e", "r", "f", "l" >> \o << "o", "w" >>,
     description |->
        << "A", "r", "i", "t", "h", "m", "e", "t", "i", "c", " ", "o", "p", "e", "r", "a", "t", "i", "o", "n", "s", " ", "e", "x" >> \o << "c", "e", "e", "d", " ", "m", "a", "x", "/", "m", "i", "n", " ", "b", "o", "u", "n", "d", "s", ",", " ", "w", "r", "a" >> \o << "p", "p", "i", "n", "g", " ", "t", "o", " ", "o", "p", "p", "o", "s", "i", "t", "e", " ", "e", "x", "t", "r", "e", "m" >> \o << "e" >>,
     vulnerable_patterns |->
        << << "u", "n", "c", "h", "e", "c", "k", "e", "d", "_", "a", "d", "d", "i", "t", "i", "o", "n" >>,
           << "u", "n", "c", "h", "e", "c", "k", "e", "d", "_", "s", "u", "b", "t", "r", "a", "c", "t", "i", "o", "n" >>,
           << "b", "a", "l", "a", "n", "c", "e", " ", "+", " ", "a", "m", "o", "u", "n", "t", " ", "w", "i", "t", "h", "o", "u", "t" >> \o << " ", "o", "v", "e", "r", "f", "l", "o", "w", " ", "c", "h", "e", "c", "k" >> >>,
     defensive_invariants |->
        << << "a", "d", "d", "i", "t", "i", "o", "n", "_", "w", "i", "t", "h", "_", "o", "v", "e", "r", "f", "l", "o", "w", "_", "c" >> \o << "h", "e", "c", "k" >>,
           << "s", "u", "b", "t", "r", "a", "c", "t", "i", "o", "n", "_", "w", "i", "t", "h", "_", "u", "n", "d", "e", "r", "f", "l" >> \o << "o", "w", "_", "c", "h", "e", "c", "k" >>,
           << "t", "o", "t", "a", "l", "_", "s", "u", "p", "p", "l", "y", "_", "c", "o", "n", "s", "t", "a", "n", "t" >>,
           << "b", "a", "l", "a", "n", "c", "e", "_", "n", "e", "v", "e", "r", "_", "n", "e", "g", "a", "t", "i", "v", "e" >> >>,
     affected_chains |-> << "evm", "move" >>,
     cvss_score |-> 85],
    [id |-> "reentrancy",
     name |-> << "R", "e", "e", "n", "t", "r", "a", "n", "c", "y" >>,
     description |->
        << "A", "t", "t", "a", "c", "k", "e", "r", " ", "c", "a", "l", "l", "s", " ", "b", "a", "c", "k", " ", "i", "n", "t", "o" >> \o << " ", "c", "o", "n", "t", "r", "a", "c", "t", " ", "d", "u", "r", "i", "n", "g", " ", "e", "x", "e", "c", "u", "t", "i" >> \o << "o", "n", ",", " ", "m", "o", "d", "i", "f", "y", "i", "n", "g", " ", "s", "t", "a", "t", "e", " ", "b", "e", "f", "o" >> \o << "r", "e", " ", "p", "r", "e", "v", "i", "o", "u", "s", " ", "e", "x", "e", "c", "u", "t", "i", "o", "n", " ", "c", "o" >> \o << "m", "p", "l", "e", "t", "e", "s" >>,
     vulnerable_patterns |->
        << << "t", "r", "a", "n", "s", "f", "e", "r", "_", "f", "u", "n", "d", "s", "(", ")", ";", " ", "/", "*", " ", "s", "t", "a" >> \o << "t", "e", " ", "u", "p", "d", "a", "t", "e", " ", "a", "f", "t", "e", "r", " ", "*", "/" >>,
           << "t", "r", "a", "n", "s", "f", "e", "r", "(", "a", "m", "o", "u", "n", "t", ")" >>,
           << "d", "e", "l", "e", "g", "a", "t", "e", "c", "a", "l", "l" >>,
           << "s", "t", "a", "t", "e", " ", "u", "p", "d", "a", "t", "e", " ", "A", "F", "T", "E", "R", " ", "e", "x", "t", "e", "r" >> \o << "n", "a", "l", " ", "c", "a", "l", "l" >>,
           << "p", "a", "y", "a", "b", "l", "e", "(", "m", "s", "g", ".", "s", "e", "n", "d", "e", "r", ")", ".", "t", "r", "a", "n" >> \o << "s", "f", "e", "r" >>,
           << "c", "a", "l", "l", ".", "v", "a", "l", "u", "e", "(", ")", "(", ")", " ", "w", "i", "t", "h", "o", "u", "t", " ", "c" >> \o << "h", "e", "c", "k", "i", "n", "g", " ", "r", "e", "-", "e", "n", "t", "r", "y" >>,
           << "s", "t", "a", "t", "e", "_", "c", "h", "a", "n", "g", "e", "_", "a", "f", "t", "e", "r", "_", "e", "x", "t", "e", "r" >> \o << "n", "a", "l", "_", "c", "a", "l", "l" >> >>,
     defensive_invariants |->
        << << "s", "t", "a", "t", "e", "_", "u", "p", "d", "a", "t", "e", "_", "b", "e", "f", "o", "r", "e", "_", "e", "x", "t", "e" >> \o << "r", "n", "a", "l", "_", "c", "a", "l", "l" >>,
           << "m", "u", "t", "e", "x", "_", "l", "o", "c", "k", "_", "d", "u", "r", "i", "n", "g", "_", "t", "r", "a", "n", "s", "f" >> \o << "e", "r" >>,
           << "c", "h", "e", "c", "k", "s", "_", "e", "f", "f", "e", "c", "t", "s", "_", "i", "n", "t", "e", "r", "a", "c", "t", "i" >> \o << "o", "n", "s", "_", "o", "r", "d", "e", "r" >>,
           << "b", "a", "l", "a", "n", "c", "e", "_", "m", "a", "t", "c", "h", "e", "s", "_", "s", "u", "m", "_", "b", "e", "f", "o" >> \o << "r", "e", "_", "a", "n", "d", "_", "a", "f", "t", "e", "r" >> >>,
     affected_chains |-> << "evm" >>,
     cvss_score |-> 98],
    [id |-> "timestamp_dependence",
     name |-> << "T", "i", "m", "e", "s", "t", "a", "m", "p", " ", "D", "e", "p", "e", "n", "d", "e", "n", "c", "e" >>,
     description |->
        << "M", "i", "n", "e", "r", "/", "v", "a", "l", "i", "d", "a", "t", "o", "r", " ", "c", "a", "n", " ", "m", "a", "n", "i" >> \o << "p", "u", "l", "a", "t", "e", " ", "b", "l", "o", "c", "k", " ", "t", "i", "m", "e", "s", "t", "a", "m", "p", " ", "f" >> \o << "o", "r", " ", "a", "d", "v", "a", "n", "t", "a", "g", "e" >>,
     vulnerable_patterns |->
        << << "r", "a", "n", "d", "o", "m", "_", "n", "u", "m", "b", "e", "r", " ", "=", " ", "b", "l", "o", "c", "k", ".", "t", "i" >> \o << "m", "e", "s", "t", "a", "m", "p" >>,
           << "c", "r", "i", "t", "i", "c", "a", "l", "_", "l", "o", "g", "i", "c", "_", "d", "e", "p", "e", "n", "d", "s", "_", "o" >> \o << "n", "_", "b", "l", "o", "c", "k", ".", "t", "i", "m", "e", "s", "t", "a", "m", "p" >>,
           << "n", "o", "_", "t", "i", "m", "e", "_", "b", "o", "u", "n", "d", "s", "_", "c", "h", "e", "c", "k", "i", "n", "g" >> >>,
     defensive_invariants |->
        << << "n", "o", "_", "r", "a", "n", "d", "o", "m", "n", "e", "s", "s", "_", "f", "r", "o", "m", "_", "t", "i", "m", "e", "s" >> \o << "t", "a", "m", "p" >>,
           << "r", "a", "n", "d", "o", "m", "n", "e", "s", "s", "_", "f", "r", "o", "m", "_", "e", "x", "t", "e", "r", "n", "a", "l" >> \o << "_", "o", "r", "a", "c", "l", "e" >>,
           << "t", "i", "m", "e", "_", "b", "o", "u", "n", "d", "s", "_", "e", "n", "f", "o", "r", "c", "e", "d" >>,
           << "t", "i", "m", "e", "s", "t", "a", "m", "p", "_", "w", "i", "t", "h", "i", "n", "_", "r", "e", "a", "s", "o", "n", "a" >> \o << "b", "l", "e", "_", "b", "o", "u", "n", "d", "s" >> >>,
     affected_chains |-> << "evm" >>,
     cvss_score |-> 65],
    [id |-> "type_confusion",
     name |-> << "T", "y", "p", "e", " ", "C", "o", "n", "f", "u", "s", "i", "o", "n", " ", "/", " ", "I", "m", "p", "l", "i", "c", "i" >> \o << "t", " ", "C", "o", "n", "v", "e", "r", "s", "i", "o", "n" >>,
     description |->
        << "I", "m", "p", "l", "i", "c", "i", "t", " ", "t", "y", "p", "e", " ", "c", "o", "n", "v", "e", "r", "s", "i", "o", "n" >> \o << "s", " ", "c", "a", "u", "s", "e", " ", "i", "n", "c", "o", "r", "r", "e", "c", "t", " ", "c", "o", "m", "p", "a", "r" >> \o << "i", "s", "o", "n", "s", " ", "o", "r", " ", "o", "p", "e", "r", "a", "t", "i", "o", "n", "s" >>,
     vulnerable_patterns |->
        << << "i", "m", "p", "l", "i", "c", "i", "t", "_", "t", "y", "p", "e", "_", "c", "o", "n", "v", "e", "r", "s", "i", "o", "n" >>,
           << "c", "o", "m", "p", "a", "r", "i", "s", "o", "n", "_", "d", "i", "f", "f", "e", "r", "e", "n", "t", "_", "t", "y", "p" >> \o << "e", "s" >>,
           << "a", "d", "d", "r", "e", "s", "s", "_", "t", "o", "_", "u", "i", "n", "t", "_", "c", "o", "n", "v", "e", "r", "s", "i" >> \o << "o", "n" >> >>,
     defensive_invariants |->
        << << "n", "o", "_", "i", "m", "p", "l", "i", "c", "i", "t", "_", "c", "o", "n", "v", "e", "r", "s", "i", "o", "n", "s" >>,
           << "e", "x", "p", "l", "i", "c", "i", "t", "_", "t", "y", "p", "e", "_", "m", "a", "t", "c", "h", "i", "n", "g", "_", "r" >> \o << "e", "q", "u", "i", "r", "e", "d" >>,
           << "t", "y", "p", "e", "_", "c", "h", "e", "c", "k", "e", "d", "_", "b", "e", "f", "o", "r", "e", "_", "c", "o", "m", "p" >> \o << "a", "r", "i", "s", "o", "n" >> >>,
     affected_chains |-> << "evm" >>,
     cvss_score |-> 72] >>

\* AttackPatternDB::patterns_for_chain
patterns_for_chain(chain) ==
    SelectSeq(AttackPatternDB_new,
              LAMBDA p : \E i \in 1..Len(p.affected_chains) : p.affected_chains[i] = chain)

(***************************************************************************)
(* SecurityValidator (crates/core/src/security_validator.rs)               *)
(***************************************************************************)

\* The members of a finite set of numbers in ascending order.
ascending(S) ==
    [k \in 1..Cardinality(S) |-> CHOOSE x \in S : Cardinality({ y \in S : y < x }) = k - 1]

\* str::lines: split at "\n" (a "\r" before it is dropped); no line after a final "\n".
lines[text \in Str] ==
    LET ends == ascending({ i \in 1..Len(text) : text[i] = "\n" }
                            \cup (IF text # << >> /\ text[Len(text)] # "\n"
                                    THEN { Len(text) + 1 } ELSE {}))
    IN  [k \in 1..Len(ends) |->
            LET first == IF k = 1 THEN 1 ELSE ends[k - 1] + 1
                last  == IF ends[k] <= Len(text) /\ ends[k] > first /\ text[ends[k] - 1] = "\r"
                           THEN ends[k] - 2 ELSE ends[k] - 1
            IN  SubSeq(text, first, last)]

s_nonReentrant == << "n", "o", "n", "R", "e", "e", "n", "t", "r", "a", "n", "t" >>
s_transfer == << "t", "r", "a", "n", "s", "f", "e", "r", "(" >>
s_call == << ".", "c", "a", "l", "l", "(" >>
s_send == << ".", "s", "e", "n", "d", "(" >>
s_balances == << "b", "a", "l", "a", "n", "c", "e", "s", "[" >>
s_balance_eq == << "b", "a", "l", "a", "n", "c", "e", " ", "=" >>
s_eq_0 == << "=", " ", "0" >>
s_Potential == << "P", "o", "t", "e", "n", "t", "i", "a", "l", " " >>
s_detected == << " ", "v", "u", "l", "n", "e", "r", "a", "b", "i", "l", "i", "t", "y", " ", "d", "e", "t", "e", "c", "t", "e", "d", "." >> \o << " " >>
s_Apply == << "A", "p", "p", "l", "y", " ", "d", "e", "f", "e", "n", "s", "i", "v", "e", " ", "i", "n", "v", "a", "r", "i", "a", "n" >> \o << "t", ":", " " >>
s_Review == << "R", "e", "v", "i", "e", "w", " ", "c", "o", "d", "e" >>
s_state_update_before_external_call == << "s", "t", "a", "t", "e", "_", "u", "p", "d", "a", "t", "e", "_", "b", "e", "f", "o", "r", "e", "_", "e", "x", "t", "e" >> \o << "r", "n", "a", "l", "_", "c", "a", "l", "l" >>

\* format!("{}:{}", file_path, line_num + 1), line_num counted from zero
location_of(file_path, line_num) == file_path \o << ":" >> \o fmt_usize(line_num + 1)

\* The look-back of check_reentrancy, in lines.
LookBack == 50

\* line_num.saturating_sub(50)
saturating_sub(a, b) == IF a >= b THEN a - b ELSE 0

\* A look-back that scans the whole text, the lines after the call included.
has_state_update_anywhere(code_lines, line_num) ==
    \E k \in 1..Len(code_lines) :
        \/ contains[code_lines[k], s_balances] /\ contains[code_lines[k], s_eq_0]
        \/ contains[code_lines[k], s_balance_eq] /\ contains[code_lines[k], s_eq_0]

\* The inner loop of check_reentrancy: lines.iter().take(line_num).skip(search_start),
\* line_num counted from zero.
has_state_update_before(code_lines, line_num) ==
    LET search_start == saturating_sub(line_num, LookBack)
    IN  \E k \in (search_start + 1)..line_num :
            \/ contains[code_lines[k], s_balances] /\ contains[code_lines[k], s_eq_0]
            \/ contains[code_lines[k], s_balance_eq] /\ contains[code_lines[k], s_eq_0]

\* SecurityValidator::check_reentrancy on the lines of the code: one issue for each
\* line (numbered from zero) that the loop does not skip, in line order.
check_reentrancy_lines(code_lines, file_path, pattern) ==
    LET flagged == ascending(
            { line_num \in 0..(Len(code_lines) - 1) :
                /\ ~contains[code_lines[line_num + 1], s_nonReentrant]
                /\ \/ contains[code_lines[line_num + 1], s_transfer]
                   \/ contains[code_lines[line_num + 1], s_call]
                   \/ contains[code_lines[line_num + 1], s_send]
                /\ ~has_state_update_before(code_lines, line_num) })
    IN  [k \in 1..Len(flagged) |->
            [attack_pattern |-> pattern.name,
             location |-> location_of(file_path, flagged[k]),
             description |-> s_Potential \o pattern.name \o s_detected \o pattern.description,
             suggested_fix |-> s_Apply \o s_state_update_before_external_call,
             severity |-> "Critical"]]

\* SecurityValidator::check_reentrancy
check_reentrancy(code, file_path, pattern) ==
    check_reentrancy_lines(lines[code], file_path, pattern)

\* match pattern.cvss_score { s if s >= 9.0 => Critical, .. }
severity_of(cvss_score) ==
    IF cvss_score >= 90 THEN "Critical"
    ELSE IF cvss_score >= 70 THEN "High"
    ELSE IF cvss_score >= 50 THEN "Medium"
    ELSE "Low"

\* The generic branch of check_pattern: every line against every vulnerable pattern,
\* j counting the (line, pattern) pairs in loop order.
check_generic(code_lines, file_path, pattern) ==
    LET n == Len(pattern.vulnerable_patterns)
        hits == ascending(
            { j \in 0..(Len(code_lines) * n - 1) :
                contains[code_lines[(j \div n) + 1], pattern.vulnerable_patterns[(j % n) + 1]] })
    IN  [k \in 1..Len(hits) |->
            [attack_pattern |-> pattern.name,
             location |-> location_of(file_path, hits[k] \div n),
             description |-> s_Potential \o pattern.name \o s_detected \o pattern.description,
             suggested_fix |->
                 s_Apply \o (IF pattern.defensive_invariants = << >>
                               THEN s_Review
                               ELSE pattern.defensive_invariants[1]),
             severity |-> severity_of(pattern.cvss_score)]]

\* SecurityValidator::check_pattern
check_pattern(code, file_path, pattern) ==
    IF pattern.id = "reentrancy"
      THEN check_reentrancy(code, file_path, pattern)
      ELSE check_generic(lines[code], file_path, pattern)

\* The issues of every pattern of the chain, in pattern order.
RECURSIVE check_patterns(_, _, _, _)
check_patterns(code, file_path, patterns, i) ==
    IF i > Len(patterns) THEN << >>
    ELSE check_pattern(code, file_path, patterns[i])
            \o check_patterns(code, file_path, patterns, i + 1)

\* SecurityValidator::validate_code
validate_code(code, file_path, chain) ==
    LET issues == check_patterns(code, file_path, patterns_for_chain(chain), 1)
        critical_issues == SelectSeq(issues, LAMBDA i : i.severity = "Critical")
        high_issues     == SelectSeq(issues, LAMBDA i : i.severity = "High")
        medium_issues   == SelectSeq(issues, LAMBDA i : i.severity = "Medium")
        low_issues      == SelectSeq(issues, LAMBDA i : i.severity = "Low")
    IN  [critical_issues |-> critical_issues,
         high_issues |-> high_issues,
         medium_issues |-> medium_issues,
         low_issues |-> low_issues,
         passed |-> critical_issues = << >> /\ high_issues = << >>,
         risk_score |-> min(Len(critical_issues) * 25 + Len(high_issues) * 15
                              + Len(medium_issues) * 8 + Len(low_issues) * 3, 100)]

\* A call of SecurityValidator::validate_code.
ValidateCode(code, file_path, chain) ==
    security' = [kind |-> "validate", code |-> code, file_path |-> file_path,
                 chain |-> chain, report |-> validate_code(code, file_path, chain)]

(***************************************************************************)
(* Specification of security validation: sources assembled from segments   *)
(***************************************************************************)

MaxSegments == 3

s_path == << "v", "a", "u", "l", "t", ".", "s", "o", "l" >>

\* n empty lines
blank_lines(n) == [i \in 1..n |-> "\n"]

\* The lines a source text is assembled from: external calls, a guarded call and
\* state-zeroing lines.
Segments ==
    { << "t", "o", ".", "c", "a", "l", "l", "(", "a", "m", "o", "u", "n", "t", ")", ";", "\n" >>,
      << "p", "a", "y", "a", "b", "l", "e", "(", "t", "o", ")", ".", "t", "r", "a", "n", "s", "f", "e", "r", "(", "a", "m", "o" >> \o << "u", "n", "t", ")", ";", "\n" >>,
      << "t", "o", ".", "s", "e", "n", "d", "(", "a", "m", "o", "u", "n", "t", ")", ";", " ", "/", "/", " ", "n", "o", "n", "R" >> \o << "e", "e", "n", "t", "r", "a", "n", "t", "\n" >>,
      << "b", "a", "l", "a", "n", "c", "e", "s", "[", "t", "o", "]", " ", "=", " ", "0", ";", "\n" >>,
      << "b", "a", "l", "a", "n", "c", "e", " ", "=", " ", "0", ";", "\n" >> }

RECURSIVE Sources(_)
Sources(n) ==
    IF n = 0 THEN { << >> }
    ELSE LET shorter == Sources(n - 1)
         IN  shorter \cup { seg \o s : seg \in Segments, s \in shorter }

\* Two lines kept apart by a run of blank lines one short of, or equal to, the look-back.
Padded ==
    { a \o pad \o b : a \in Segments, b \in Segments,
                      pad \in { blank_lines(LookBack - 1), blank_lines(LookBack) } }

SecuritySources == Sources(MaxSegments) \cup Padded

SecurityFrame ==
    UNCHANGED << evalVars, checkerVars, aaVars, sandbox, tamper,
                 generated, verifier, build, parsed, modelVars >>

NextSecurity ==
    /\ security = NoCall
    /\ \E code \in SecuritySources, chain \in {"evm", "solana"} :
            ValidateCode(code, s_path, chain)
    /\ SecurityFrame

SpecSecurity == Init /\ [][NextSecurity]_vars

\* The chains the reentrancy pattern affects.
reentrancy_chains ==
    { chain \in Chains : \E i \in 1..Len(patterns_for_chain(chain)) :
                            patterns_for_chain(chain)[i].id = "reentrancy" }

\* A line with an external-call token and no nonReentrant marker.
unguarded_call(l) ==
    /\ contains[l, s_transfer] \/ contains[l, s_call] \/ contains[l, s_send]
    /\ ~contains[l, s_nonReentrant]

\* A line with a state-zeroing pattern.
zeroing(l) ==
    /\ contains[l, s_balances] \/ contains[l, s_balance_eq]
    /\ contains[l, s_eq_0]

\* All issues of a report.
issues_of(report) ==
    report.critical_issues \o report.high_issues \o report.medium_issues \o report.low_issues

\* The positions, in a list of issues, of the reentrancy issues located at line n.
reentrancy_at(issues, file_path, n) ==
    { i \in 1..Len(issues) :
        /\ issues[i].attack_pattern = << "R", "e", "e", "n", "t", "r", "a", "n", "c", "y" >>
        /\ issues[i].location = file_path \o << ":" >> \o fmt_usize(n) }

\* C13: on a chain the reentrancy pattern affects, an unguarded external-call line gives
\* no reentrancy issue when one of the (up to) 50 lines before it is a zeroing line, and
\* exactly one issue, a Critical one located at the call's line, when none is; a zeroing
\* line after the call does not count.
C13_ReentrancyOrder ==
    (security.kind = "validate" /\ security.chain \in reentrancy_chains) =>
        LET ls == lines[security.code]
        IN  \A n \in 1..Len(ls) :
                unguarded_call(ls[n]) =>
                    IF \E k \in 1..(n - 1) : n - k <= 50 /\ zeroing(ls[k])
                      THEN reentrancy_at(issues_of(security.report), security.file_path, n) = {}
                      ELSE /\ Cardinality(reentrancy_at(issues_of(security.report),
                                                        security.file_path, n)) = 1
                           /\ Cardinality(reentrancy_at(security.report.critical_issues,
                                                        security.file_path, n)) = 1

\* An unguarded call whose only zeroing line comes after it, reported once as Critical.
C13_Witness ==
    /\ security.kind = "validate"
    /\ security.chain \in reentrancy_chains
    /\ \E n \in 1..Len(lines[security.code]) :
          /\ unguarded_call(lines[security.code][n])
          /\ \A k \in 1..(n - 1) : ~zeroing(lines[security.code][k])
          /\ \E k \in (n + 1)..Len(lines[security.code]) : zeroing(lines[security.code][k])
          /\ Cardinality(reentrancy_at(security.report.critical_issues,
                                       security.file_path, n)) = 1

(***************************************************************************)
(* `invar build` (crates/cli/src/main.rs)                                  *)
(***************************************************************************)

\* Option<T>::Some
Some(v) == << v >>

\* str::matches(p).count(): the occurrences of p from position i on, left to right,
\* each search resuming after the previous match.
RECURSIVE matches_count(_, _, _)
matches_count(s, p, i) ==
    LET found == { k \in i..(Len(s) - Len(p) + 1) : SubSeq(s, k, k + Len(p) - 1) = p }
    IN  IF found = {} THEN 0
        ELSE 1 + matches_count(s, p, (CHOOSE k \in found : \A j \in found : k <= j) + Len(p))

\* Ord::max
max(a, b) == IF a >= b THEN a ELSE b

\* generate_solana_checks
generate_solana_checks(content) ==
    LET check_count == max(matches_count(content, << "a", "s", "s", "e", "r", "t" >>, 1), 1)
        source_lines == Len(lines[content])
    IN  << "/", "/", "!", " ", "G", "e", "n", "e", "r", "a", "t", "e", "d", " ", "S", "o", "l", "a", "n", "a", " ", "i", "n", "v" >> \o << "a", "r", "i", "a", "n", "t", " ", "c", "h", "e", "c", "k", "s", "\n", "/", "/", "!", " ", "S", "o", "u", "r", "c", "e" >> \o << " ", "a", "n", "a", "l", "y", "s", "i", "s", ":", " " >> \o fmt_usize(source_lines)
        \o << " ", "l", "i", "n", "e", "s", ",", " " >> \o fmt_usize(Len(content)) \o << " ", "b", "y", "t", "e", "s", "\n", "/", "/", "!", " ", "D", "e", "t", "e", "c", "t", "e", "d", " ", "c", "h", "e", "c" >> \o << "k", "s", ":", " " >>
        \o fmt_usize(check_count)
        \o << "\n", "\n", "/", "/", "/", " ", "V", "e", "r", "i", "f", "y", " ", "S", "o", "l", "a", "n", "a", " ", "i", "n", "v", "a" >> \o << "r", "i", "a", "n", "t", "s", "\n", "p", "u", "b", " ", "f", "n", " ", "v", "e", "r", "i", "f", "y", "_", "i", "n", "v" >> \o << "a", "r", "i", "a", "n", "t", "s", "(", ")", " ", "-", ">", " ", "P", "r", "o", "g", "r", "a", "m", "R", "e", "s", "u" >> \o << "l", "t", " ", "{", "\n", "/", "/", " " >>
        \o fmt_usize(check_count) \o << " ", "i", "n", "v", "a", "r", "i", "a", "n", "t", " ", "c", "h", "e", "c", "k", "s", " ", "c", "o", "m", "p", "i", "l" >> \o << "e", "d", "\n", "O", "k", "(", "(", ")", ")", "\n", "}", "\n" >>

\* generate_evm_checks
generate_evm_checks(content) ==
    LET check_count == max(matches_count(content, << "r", "e", "q", "u", "i", "r", "e" >>, 1), 1)
        source_lines == Len(lines[content])
    IN  << "/", "/", " ", "G", "e", "n", "e", "r", "a", "t", "e", "d", " ", "E", "V", "M", " ", "i", "n", "v", "a", "r", "i", "a" >> \o << "n", "t", " ", "c", "h", "e", "c", "k", "s", "\n", "/", "/", " ", "S", "o", "u", "r", "c", "e", " ", "a", "n", "a", "l" >> \o << "y", "s", "i", "s", ":", " " >> \o fmt_usize(source_lines)
        \o << " ", "l", "i", "n", "e", "s", ",", " " >> \o fmt_usize(Len(content)) \o << " ", "b", "y", "t", "e", "s", "\n", "/", "/", " ", "D", "e", "t", "e", "c", "t", "e", "d", " ", "c", "h", "e", "c", "k" >> \o << "s", ":", " " >>
        \o fmt_usize(check_count)
        \o << "\n", "\n", "/", "/", "/", " ", "E", "n", "f", "o", "r", "c", "e", " ", "s", "t", "a", "t", "e", " ", "i", "n", "v", "a" >> \o << "r", "i", "a", "n", "t", "s", "\n", "m", "o", "d", "i", "f", "i", "e", "r", " ", "i", "n", "v", "a", "r", "i", "a", "n" >> \o << "t", "S", "t", "a", "t", "e", "(", ")", " ", "{", "\n", "_", ";", "\n", "/", "/", " " >>
        \o fmt_usize(check_count) \o << " ", "i", "n", "v", "a", "r", "i", "a", "n", "t", " ", "c", "h", "e", "c", "k", "s", " ", "e", "n", "f", "o", "r", "c" >> \o << "e", "d", "\n", "}", "\n" >>

\* generate_move_checks
generate_move_checks(content) ==
    LET check_count == max(matches_count(content, << "a", "s", "s", "e", "r", "t" >>, 1), 1)
        source_lines == Len(lines[content])
    IN  << "/", "/", "/", " ", "G", "e", "n", "e", "r", "a", "t", "e", "d", " ", "M", "o", "v", "e", " ", "i", "n", "v", "a", "r" >> \o << "i", "a", "n", "t", " ", "c", "h", "e", "c", "k", "s", "\n", "/", "/", "/", " ", "S", "o", "u", "r", "c", "e", " ", "a" >> \o << "n", "a", "l", "y", "s", "i", "s", ":", " " >> \o fmt_usize(source_lines)
        \o << " ", "l", "i", "n", "e", "s", ",", " " >> \o fmt_usize(Len(content)) \o << " ", "b", "y", "t", "e", "s", "\n", "/", "/", "/", " ", "D", "e", "t", "e", "c", "t", "e", "d", " ", "c", "h", "e", "c" >> \o << "k", "s", ":", " " >>
        \o fmt_usize(check_count)
        \o << "\n", "\n", "/", "/", "/", " ", "V", "e", "r", "i", "f", "y", " ", "M", "o", "v", "e", " ", "i", "n", "v", "a", "r", "i" >> \o << "a", "n", "t", "s", "\n", "p", "u", "b", "l", "i", "c", " ", "f", "u", "n", " ", "v", "e", "r", "i", "f", "y", "_", "i" >> \o << "n", "v", "a", "r", "i", "a", "n", "t", "s", "(", ")", " ", "{", "\n", "/", "/", " " >>
        \o fmt_usize(check_count) \o << " ", "i", "n", "v", "a", "r", "i", "a", "n", "t", " ", "c", "h", "e", "c", "k", "s", " ", "c", "o", "m", "p", "i", "l" >> \o << "e", "d", "\n", "}", "\n" >>

\* anyhow::Result<()> of build_invariants
BuildOk == [ok |-> TRUE, err |-> "none", count |-> 0]
BuildErr(kind, n) == [ok |-> FALSE, err |-> kind, count |-> n]

\* `invar build --source <source> --chain <chain> --output <output>` is started.  The
\* source file is absent, unreadable or has a content; the output path is absent, a
\* directory, or cannot be made one; the output file can be written or not.
StartBuild(source, chain, output, writable) ==
    /\ build = NoCall
    /\ build' = [kind |-> "build", pc |-> "chain", source |-> source, chain |-> chain,
                 output |-> output, writable |-> writable, report |-> None,
                 content |-> None, written |-> None, ops |-> << >>, result |-> None]

\* build_invariants: match chain { "solana" | "evm" | "move" => {} _ => return Err(..) }
CheckChain ==
    /\ build.kind = "build" /\ build.pc = "chain"
    /\ build' = IF build.chain \in Chains
                  THEN [build EXCEPT !.pc = "source"]
                  ELSE [build EXCEPT !.pc = "done",
                                     !.result = Some(BuildErr("UnknownChain", 0))]

\* build_invariants: if !source.exists() { return Err(..) }
CheckSource ==
    /\ build.kind = "build" /\ build.pc = "source"
    /\ build' = IF build.source.exists
                  THEN [build EXCEPT !.pc = "validate"]
                  ELSE [build EXCEPT !.pc = "done",
                                     !.result = Some(BuildErr("SourceNotFound", 0))]

\* SecurityValidator::validate_file, called from build_invariants (step 1)
ValidateFile ==
    /\ build.kind = "build" /\ build.pc = "validate"
    /\ build' = IF build.source.readable
                  THEN [build EXCEPT
                          !.pc = "gate",
                          !.ops = Append(@, "read_to_string"),
                          !.report = Some(validate_code(build.source.content, s_path,
                                                        build.chain))]
                  ELSE [build EXCEPT !.pc = "done",
                                     !.result = Some(BuildErr("SecurityValidationFailed", 0))]

\* A gate that lets a report through unless its risk score reaches 50.
blocks_on_risk_score(security_report) == security_report.risk_score >= 50

\* !security_report.critical_issues.is_empty()
blocks(security_report) == security_report.critical_issues # << >>

\* build_invariants: the critical-issue gate, up to "Step 2"
Gate ==
    /\ build.kind = "build" /\ build.pc = "gate"
    /\ build' = IF blocks(build.report[1])
                  THEN [build EXCEPT
                          !.pc = "done",
                          !.result = Some(BuildErr("CriticalVulnerabilities",
                                                   Len(build.report[1].critical_issues)))]
                  ELSE [build EXCEPT !.pc = "read"]

\* build_invariants: let content = fs::read_to_string(source)?
ReadSource ==
    /\ build.kind = "build" /\ build.pc = "read"
    /\ build' = IF build.source.readable
                  THEN [build EXCEPT !.pc = "create_dir",
                                     !.ops = Append(@, "read_to_string"),
                                     !.content = Some(build.source.content)]
                  ELSE [build EXCEPT !.pc = "done", !.result = Some(BuildErr("Io", 0))]

\* build_invariants: fs::create_dir_all(output)?
CreateDir ==
    /\ build.kind = "build" /\ build.pc = "create_dir"
    /\ build' = IF build.output = "blocked"
                  THEN [build EXCEPT !.pc = "done", !.result = Some(BuildErr("Io", 0))]
                  ELSE [build EXCEPT !.pc = "write",
                                     !.ops = Append(@, "create_dir_all"),
                                     !.output = "dir"]

\* build_invariants: generate for the chain, fs::write(&output_file, &generated_code)?
\* The file name generated_<chain>.rs is kept as its three parts.
WriteOutput ==
    /\ build.kind = "build" /\ build.pc = "write"
    /\ LET generated_code ==
               CASE build.chain = "solana" -> generate_solana_checks(build.content[1])
                 [] build.chain = "evm"    -> generate_evm_checks(build.content[1])
                 [] build.chain = "move"   -> generate_move_checks(build.content[1])
           output_file == << "generated_", build.chain, ".rs" >>
       IN  build' = IF build.writable
                      THEN [build EXCEPT
                              !.pc = "done",
                              !.ops = Append(@, "write"),
                              !.written = Some([name |-> output_file, code |-> generated_code]),
                              !.result = Some(BuildOk)]
                      ELSE [build EXCEPT !.pc = "done", !.result = Some(BuildErr("Io", 0))]

(***************************************************************************)
(* Specification of a build run over small sources and file systems        *)
(***************************************************************************)

\* Source texts: harmless; an unguarded external call (Critical on evm); a tx.origin
\* test (Critical on every chain); a slippage marker (High on evm); a time-bounds marker
\* (Medium on evm); a zeroed balance before the call (no issue).
BuildContents ==
    { << "a", "s", "s", "e", "r", "t", "(", "x", " ", ">", " ", "0", ")", ";", "\n", "r", "e", "q", "u", "i", "r", "e", "(", "y" >> \o << ")", ";", "\n" >>,
      << "t", "o", ".", "c", "a", "l", "l", "(", "a", "m", "o", "u", "n", "t", ")", ";", "\n" >>,
      << "r", "e", "q", "u", "i", "r", "e", "(", "t", "x", ".", "o", "r", "i", "g", "i", "n", " ", "!", "=", " ", "m", "s", "g" >> \o << ".", "s", "e", "n", "d", "e", "r", ")", ";", "\n" >>,
      << "n", "o", "_", "s", "l", "i", "p", "p", "a", "g", "e", "_", "p", "r", "o", "t", "e", "c", "t", "i", "o", "n", "\n" >>,
      << "n", "o", "_", "t", "i", "m", "e", "_", "b", "o", "u", "n", "d", "s", "_", "c", "h", "e", "c", "k", "i", "n", "g", "\n" >> \o << "a", "s", "s", "e", "r", "t", " ", "a", "s", "s", "e", "r", "t", "\n" >>,
      << "b", "a", "l", "a", "n", "c", "e", "s", "[", "t", "o", "]", " ", "=", " ", "0", ";", "\n", "t", "o", ".", "c", "a", "l" >> \o << "l", "(", "a", "m", "o", "u", "n", "t", ")", ";", "\n" >> }

BuildSources ==
    { [exists |-> FALSE, readable |-> FALSE, content |-> << >>],
      [exists |-> TRUE, readable |-> FALSE, content |-> << >>] }
    \cup [exists : {TRUE}, readable : {TRUE}, content : BuildContents]

BuildFrame ==
    UNCHANGED << evalVars, checkerVars, aaVars, sandbox, tamper,
                 generated, verifier, security, parsed, modelVars >>

NextBuild ==
    \/ /\ \E source \in BuildSources, chain \in Chains \cup {"near"},
             output \in {"absent", "dir", "blocked"}, writable \in BOOLEAN :
               StartBuild(source, chain, output, writable)
       /\ BuildFrame
    \/ CheckChain /\ BuildFrame
    \/ CheckSource /\ BuildFrame
    \/ ValidateFile /\ BuildFrame
    \/ Gate /\ BuildFrame
    \/ ReadSource /\ BuildFrame
    \/ CreateDir /\ BuildFrame
    \/ WriteOutput /\ BuildFrame

\* A started build runs on to its return: every step that is enabled is taken.
SpecBuild == Init /\ [][NextBuild]_vars /\ WF_vars(NextBuild)

\* The security report of the run has at least one Critical issue.
CriticalFound ==
    /\ build.kind = "build"
    /\ build.report # None
    /\ \E i \in 1..Len(build.report[1].critical_issues) :
          build.report[1].critical_issues[i].severity = "Critical"

\* The run has reached code generation or has touched the output.
Generating ==
    /\ build.kind = "build"
    /\ \/ build.pc \in {"read", "create_dir", "write"}
       \/ \E i \in 1..Len(build.ops) : build.ops[i] \in {"create_dir_all", "write"}
       \/ build.written # None
       \/ build.result = Some(BuildOk)

\* The run has returned the critical-vulnerabilities error.
Blocked ==
    /\ build.kind = "build"
    /\ build.pc = "done"
    /\ build.result # None
    /\ ~build.result[1].ok
    /\ build.result[1].err = "CriticalVulnerabilities"

\* C12: a build whose security report has a Critical issue never reaches code
\* generation, never creates the output directory or writes a generated file, and
\* returns an error; code generation happens only under a report without Critical issue.
C12_CriticalBlocksGeneration ==
    /\ [](CriticalFound => ~Generating)
    /\ [](Generating => (build.report # None /\ build.report[1].critical_issues = << >>))
    /\ (CriticalFound ~> Blocked)

\* A run with a Critical finding that has returned its error with the output untouched.
C12_Witness ==
    /\ CriticalFound
    /\ Blocked
    /\ build.output = "absent"
    /\ build.written = None

(***************************************************************************)
(* StrictModeAnalyzer (crates/core/src/threat_model.rs)                    *)
(***************************************************************************)

\* [String]::join(sep)
RECURSIVE join(_, _)
join(strs, sep) ==
    IF strs = << >> THEN << >>
    ELSE IF Len(strs) = 1 THEN strs[1]
    ELSE strs[1] \o sep \o join(Tail(strs), sep)

MutationUncertaintyDetected(msg) == ThreatErr("MutationUncertaintyDetected", msg)

\* An analyzer that is strict whatever its flag says.
verify_mutation_coverage_always_strict(enabled, analyzed_mutations, uncertainty_warnings) ==
    IF uncertainty_warnings # << >>
      THEN MutationUncertaintyDetected(
               << "s", "t", "r", "i", "c", "t", " ", "m", "o", "d", "e", " ", "d", "e", "t", "e", "c", "t", "e", "d", " " >> \o fmt_usize(Len(uncertainty_warnings))
                   \o << " ", "u", "n", "c", "e", "r", "t", "a", "i", "n", " ", "m", "u", "t", "a", "t", "i", "o", "n", "s", ":", " " >> \o join(uncertainty_warnings, << ",", " " >>))
      ELSE ThreatOk

\* StrictModeAnalyzer::verify_mutation_coverage, `enabled` being the analyzer's field
verify_mutation_coverage(enabled, analyzed_mutations, uncertainty_warnings) ==
    IF ~enabled THEN ThreatOk
    ELSE IF uncertainty_warnings # << >>
      THEN MutationUncertaintyDetected(
               << "s", "t", "r", "i", "c", "t", " ", "m", "o", "d", "e", " ", "d", "e", "t", "e", "c", "t", "e", "d", " " >> \o fmt_usize(Len(uncertainty_warnings))
                   \o << " ", "u", "n", "c", "e", "r", "t", "a", "i", "n", " ", "m", "u", "t", "a", "t", "i", "o", "n", "s", ":", " " >> \o join(uncertainty_warnings, << ",", " " >>))
      ELSE ThreatOk

\* A call of StrictModeAnalyzer::new(enabled).verify_mutation_coverage.
VerifyMutationCoverage(enabled, analyzed_mutations, uncertainty_warnings) ==
    verifier' = [kind |-> "mutation", enabled |-> enabled,
                 analyzed |-> analyzed_mutations, warnings |-> uncertainty_warnings,
                 out |-> verify_mutation_coverage(enabled, analyzed_mutations,
                                                  uncertainty_warnings)]

(***************************************************************************)
(* Specification of the coverage and strict-mode verifiers                 *)
(***************************************************************************)

MaxCoverLines == 2
MaxWarnings == 2

\* Checks looked for: "b" is a prefix of "ba".
CoverChecks == { s_a, s_b, s_ba, s_supply }

\* Lines of generated text: tagged checks, an untagged one, a tag in lower case, a tag
\* in the middle of a line.
CoverLines ==
    { s_Invariant \o s_a \o << "\n" >>,
      s_Invariant \o s_ba \o << "\n" >>,
      s_Invariant \o s_supply \o << "\n" >>,
      s_comment \o s_supply \o << "\n" >>,
      to_lowercase(s_Invariant) \o s_a \o << "\n" >>,
      s_code \o << " " >> \o s_Invariant \o s_b }

\* The concatenation of a list of strings.
RECURSIVE concat(_)
concat(strs) == IF strs = << >> THEN << >> ELSE strs[1] \o concat(Tail(strs))

CoverTexts ==
    { concat(l) : l \in UNION { ListsOf(CoverLines, len) : len \in 0..MaxCoverLines } }

CoverLists == UNION { ListsOf(CoverChecks, len) : len \in 0..MaxChecks }

Mutations == { << "d", "e", "p", "o", "s", "i", "t" >>, << "w", "i", "t", "h", "d", "r", "a", "w" >> }

Warnings == { << "w", "i", "t", "h", "d", "r", "a", "w", ":", " ", "i", "n", "d", "i", "r", "e", "c", "t", " ", "w", "r", "i", "t", "e" >>, << "x" >>, << "a", ",", " ", "b" >> }

MutationLists == UNION { ListsOf(Mutations, len) : len \in 0..MaxWarnings }

WarningLists == UNION { ListsOf(Warnings, len) : len \in 0..MaxWarnings }

VerifierFrame ==
    UNCHANGED << evalVars, checkerVars, aaVars, sandbox, tamper,
                 generated, security, build, parsed, modelVars >>

NextVerifier ==
    \/ /\ verifier = NoCall
       /\ \E text \in CoverTexts, checks \in CoverLists : VerifyCoverage(text, checks)
       /\ VerifierFrame
    \/ /\ verifier = NoCall
       /\ \E enabled \in BOOLEAN, analyzed \in MutationLists, warnings \in WarningLists :
              VerifyMutationCoverage(enabled, analyzed, warnings)
       /\ VerifierFrame

SpecVerifier == Init /\ [][NextVerifier]_vars

\* The positions of the checks of a coverage call whose tagged form the text lacks.
missing_checks ==
    { i \in 1..Len(verifier.checks) :
        \A k \in 0..(Len(verifier.text) - 14 - Len(verifier.checks[i])) :
            SubSeq(verifier.text, k + 1, k + 14 + Len(verifier.checks[i]))
                # << "/", "/", " ", "I", "n", "v", "a", "r", "i", "a", "n", "t", ":", " " >> \o verifier.checks[i] }

\* C14: verify_coverage returns Ok exactly when the text contains "// Invariant: "
\* followed by the check for every check of the list, and otherwise
\* ReParseVerificationFailed naming the first missing check in list order.
C14_CoverageFirstMissing ==
    verifier.kind = "coverage" =>
        IF missing_checks = {}
          THEN verifier.out.ok
          ELSE LET first == CHOOSE i \in missing_checks : \A j \in missing_checks : i <= j
               IN  /\ ~verifier.out.ok
                   /\ verifier.out.err.kind = "ReParseVerificationFailed"
                   /\ verifier.out.err.arg =
                        << "i", "n", "v", "a", "r", "i", "a", "n", "t", " ", "c", "h", "e", "c", "k", " ", "n", "o", "t", " ", "f", "o", "u", "n" >> \o << "d", " ", "i", "n", " ", "g", "e", "n", "e", "r", "a", "t", "e", "d", " ", "c", "o", "d", "e", ":", " " >> \o verifier.checks[first]

\* A call whose first check is present and whose second, different check is missing.
C14_Witness ==
    /\ verifier.kind = "coverage"
    /\ Len(verifier.checks) = 2
    /\ missing_checks = {2}
    /\ verifier.checks[1] # verifier.checks[2]
    /\ ~verifier.out.ok

\* The warnings separated by ", ", built from the last one backwards.
RECURSIVE comma_separated(_)
comma_separated(ws) ==
    IF Len(ws) = 0 THEN << >>
    ELSE IF Len(ws) = 1 THEN ws[1]
    ELSE comma_separated(SubSeq(ws, 1, Len(ws) - 1)) \o << ",", " " >> \o ws[Len(ws)]

\* C15: verify_mutation_coverage fails with MutationUncertaintyDetected, carrying the
\* joined warnings, exactly when strict mode is on and there is a warning; with strict
\* mode off it returns Ok; the analyzed mutations have no part in the outcome.
C15_StrictModeMutationCoverage ==
    verifier.kind = "mutation" =>
        IF verifier.enabled /\ Len(verifier.warnings) > 0
          THEN /\ ~verifier.out.ok
               /\ verifier.out.err.kind = "MutationUncertaintyDetected"
               /\ LET arg == verifier.out.err.arg
                      joined == comma_separated(verifier.warnings)
                  IN  /\ Len(arg) > Len(joined)
                      /\ SubSeq(arg, Len(arg) - Len(joined) + 1, Len(arg)) = joined
          ELSE verifier.out = ThreatOk

\* Strict mode off, warnings present, mutations analyzed: the call returns Ok.
C15_Witness ==
    /\ verifier.kind = "mutation"
    /\ ~verifier.enabled
    /\ Len(verifier.warnings) = 2
    /\ Len(verifier.analyzed) > 0
    /\ verifier.out.ok

(***************************************************************************)
(* Specification of the operator rules: every operator on every pair of    *)
(* operand types, variables declared directly and through a program model  *)
(***************************************************************************)

\* state_vars tables (name -> type_name) of program models declaring `balance`
RulePrograms ==
    { [k \in { s_balance } |-> type_name] :
        type_name \in { << "b", "o", "o", "l" >>, << "u", "6", "4" >>, << "U", "i", "n", "t", "1", "2", "8" >>, << "i", "n", "t", "6", "4" >>, << "a", "d", "d", "r", "e", "s", "s" >> } }

RuleOperands ==
    { Boolean(TRUE), IntLit(i128_zero), IntLit(i128_u64_max_plus_1), IntLit(i128_minus_one),
      Var(s_balance), Var(s_n) }

RuleExprs ==
    RuleOperands
    \cup { BinaryOp(l, op, r) : l \in RuleOperands, op \in BinaryOps, r \in RuleOperands }
    \cup { BinaryOp(BinaryOp(Var(s_n), "Eq", Var(s_n)), op, Boolean(TRUE)) : op \in BinaryOps }

RuleFrame == UNCHANGED << aaVars, sandbox, tamper, toolVars, modelVars >>

NextRules ==
    \/ /\ call = NoCall
       /\ \E ty \in Types : register_state_var(s_n, ty)
       /\ UNCHANGED evalVars /\ RuleFrame
    \/ /\ call = NoCall
       /\ \E program \in RulePrograms : load_from_program(program)
       /\ UNCHANGED evalVars /\ RuleFrame
    \/ /\ call = NoCall
       /\ \E e \in RuleExprs : TypeCheck(e)
       /\ UNCHANGED << state_vars, functions >> /\ RuleFrame

SpecRules == Init /\ [][NextRules]_vars

\* A type check of a BinaryOp has been made.
CheckedBinaryOp == call.kind = "checked" /\ call.expr.tag = "BinaryOp"

\* C16: the type checker accepts no BinaryOp whose operands have different inferred
\* types, under any of the six operators (no numeric widening), and an accepted
\* BinaryOp has type Bool.
C16_NoImplicitWidening ==
    (CheckedBinaryOp /\ call.check.ok) =>
        /\ call.check.ty = "Bool"
        /\ infer_type(call.expr.left, Tc).ok
        /\ infer_type(call.expr.right, Tc).ok
        /\ infer_type(call.expr.left, Tc).ty = infer_type(call.expr.right, Tc).ty

\* != between a U64 and a U128 literal has been rejected.
C16_Witness ==
    /\ CheckedBinaryOp
    /\ call.expr = BinaryOp(IntLit(i128_zero), "Neq", IntLit(i128_u64_max_plus_1))
    /\ infer_type(call.expr.left, Tc) = TOk("U64")
    /\ infer_type(call.expr.right, Tc) = TOk("U128")
    /\ ~call.check.ok

\* C17: under <, >, <=, >= the type checker returns IncomparableTypes{left, right}
\* when an operand type is Bool or Address, BinaryOpTypeMismatch{left, op, right} when
\* both are numeric and differ, and Bool otherwise; `balance >= 0` is rejected with
\* IncomparableTypes{Bool, U64} when balance is declared Bool and has type Bool when
\* balance is declared U64.
C17_RelationalRule ==
    (/\ CheckedBinaryOp
     /\ call.expr.op \in {"Lt", "Gt", "Lte", "Gte"}
     /\ infer_type(call.expr.left, Tc).ok
     /\ infer_type(call.expr.right, Tc).ok) =>
        LET left  == infer_type(call.expr.left, Tc).ty
            right == infer_type(call.expr.right, Tc).ty
        IN  /\ (left \in {"Bool", "Address"} \/ right \in {"Bool", "Address"}) =>
                  /\ ~call.check.ok
                  /\ call.check.err = [kind |-> "IncomparableTypes",
                                       left |-> left, right |-> right]
            /\ (left \in {"U64", "U128", "I64"} /\ right \in {"U64", "U128", "I64"}
                  /\ left # right) =>
                  /\ ~call.check.ok
                  /\ call.check.err.kind = "BinaryOpTypeMismatch"
                  /\ call.check.err.left = left
                  /\ call.check.err.right = right
                  /\ call.check.err.op = fmt_BinaryOp(call.expr.op)
            /\ (left \in {"U64", "U128", "I64"} /\ left = right) =>
                  call.check = TOk("Bool")
            /\ (call.expr = BinaryOp(Var(s_balance), "Gte", IntLit(i128_zero))
                  /\ tc_state_vars[s_balance] = "Bool") =>
                  call.check.err = [kind |-> "IncomparableTypes",
                                    left |-> "Bool", right |-> "U64"]
            /\ (call.expr = BinaryOp(Var(s_balance), "Gte", IntLit(i128_zero))
                  /\ tc_state_vars[s_balance] = "U64") =>
                  call.check = TOk("Bool")

\* `balance >= 0` with balance declared "bool" by the program model: rejected.
C17_Witness ==
    /\ CheckedBinaryOp
    /\ call.expr = BinaryOp(Var(s_balance), "Gte", IntLit(i128_zero))
    /\ s_balance \in DOMAIN tc_state_vars
    /\ tc_state_vars[s_balance] = "Bool"
    /\ s_min \in DOMAIN tc_functions
    /\ ~call.check.ok

(***************************************************************************)
(* Claims about the standard library and the phase-aware variants          *)
(***************************************************************************)

\* The signatures of the standard library: parameter types and return type.
StdlibSignatures ==
    [ f \in { s_sum, s_len, s_min, s_max } |->
        IF f = s_sum THEN [params |-> << "U64" >>, return_type |-> "U64"]
        ELSE IF f = s_len THEN [params |-> << "Address" >>, return_type |-> "U64"]
        ELSE [params |-> << "U64", "U64" >>, return_type |-> "U64"] ]

\* A call of a standard-library function whose arguments have the parameter types.
WellTypedStdlibCall(expr) ==
    /\ expr.tag = "FunctionCall"
    /\ expr.name \in DOMAIN StdlibSignatures
    /\ Len(expr.args) = Len(StdlibSignatures[expr.name].params)
    /\ \A i \in 1..Len(expr.args) :
          infer_type(expr.args[i], Tc) = TOk(StdlibSignatures[expr.name].params[i])

\* C18: the standard library is there from construction on: the type checker resolves
\* sum, len, min and max with their signatures whether or not load_from_program has
\* run, and a standard-library call that passes the type checker never evaluates to
\* UndefinedFunction.
C18_StdlibAtConstruction ==
    /\ (call.kind = "checked" /\ WellTypedStdlibCall(call.expr)) =>
            call.check = TOk(StdlibSignatures[call.expr.name].return_type)
    /\ (Evaluated /\ call.expr.tag = "FunctionCall"
          /\ call.expr.name \in DOMAIN StdlibSignatures
          /\ check_expr(call.expr, Tc).ok) =>
            (call.out.res.ok \/ call.out.res.err.kind # "UndefinedFunction")

\* C19: the type checker types the phase-aware variants: PhaseQualifiedVar as the
\* lookup of its variable, PhaseConstraint as its constraint, which must be Bool, and
\* CrossPhaseRelation as the binary comparison of its two operands under its operator.
C19_PhaseVariantsTyped ==
    call.kind = "checked" =>
        CASE call.expr.tag = "PhaseQualifiedVar" ->
                IF call.expr.var \in DOMAIN tc_state_vars
                  THEN call.check = TOk(tc_state_vars[call.expr.var])
                  ELSE ~call.check.ok /\ call.check.err.kind = "UndefinedVariable"
          [] call.expr.tag = "PhaseConstraint" ->
                IF check_expr(call.expr.constraint, Tc) = TOk("Bool")
                  THEN call.check = TOk("Bool")
                  ELSE ~call.check.ok
          [] call.expr.tag = "CrossPhaseRelation" ->
                IF check_expr(call.expr.expr1, Tc).ok /\ check_expr(call.expr.expr2, Tc).ok
                  THEN call.check = binary_op_rule(check_expr(call.expr.expr1, Tc).ty,
                                                   call.expr.op,
                                                   check_expr(call.expr.expr2, Tc).ty)
                  ELSE ~call.check.ok
          [] OTHER -> TRUE

(***************************************************************************)
(* dsl_parser: the pest grammar of the invariant language                  *)
(***************************************************************************)

\* The state of a pest match: whether it succeeded, the position of the next
\* character (from 1), and the token pairs it produced.
PFail == [ok |-> FALSE, pos |-> 0, pairs |-> << >>]

POk(pos, pairs) == [ok |-> TRUE, pos |-> pos, pairs |-> pairs]

\* A token pair: its rule, the text of its span (as_str) and its inner pairs.
Pair(rule, input, start, end, inner) ==
    [rule |-> rule, str |-> SubSeq(input, start, end - 1), inner |-> inner]

\* The continuation of a successful match or Ok result (and_then, `?`); a
\* failure is passed on as it is.
and_then(r, F(_)) == CHOOSE y \in { IF x.ok THEN F(x) ELSE x : x \in { r } } : TRUE

\* Ordered choice: the alternative is tried only when the first match fails.
choice(r, alt) == CHOOSE y \in { IF x.ok THEN x ELSE alt : x \in { r } } : TRUE

\* A string literal of the grammar.
match_string(input, pos, s) ==
    IF pos + Len(s) - 1 <= Len(input) /\ SubSeq(input, pos, pos + Len(s) - 1) = s
      THEN POk(pos + Len(s), << >>)
      ELSE PFail

ASCII_DIGIT == { Ascii[i] : i \in 17..26 }

ASCII_ALPHA == { Ascii[i] : i \in (34..59) \cup (66..91) }

ASCII_ALPHANUMERIC == ASCII_ALPHA \cup ASCII_DIGIT

\* The end of the longest run of characters of a class that starts at pos.
run_end(input, pos, class) ==
    CHOOSE j \in pos..(Len(input) + 1) :
        /\ \A k \in pos..(j - 1) : input[k] \in class
        /\ j > Len(input) \/ input[j] \notin class

\* WHITESPACE = _{ " " | "\t" | NEWLINE },  NEWLINE = @{ "\r\n" | "\n" }
WHITESPACE(input, j) ==
    \/ input[j] \in { " ", "\t", "\n" }
    \/ input[j] = "\r" /\ j < Len(input) /\ input[j + 1] = "\n"

\* The implicit WHITESPACE* between the parts of a sequence or a repetition.
skip(input, pos) ==
    CHOOSE j \in pos..(Len(input) + 1) :
        /\ \A k \in pos..(j - 1) : WHITESPACE(input, k)
        /\ j > Len(input) \/ ~WHITESPACE(input, j)

\* A rule whose body is one string literal.
token(rule, s, input, pos) ==
    and_then(match_string(input, pos, s),
             LAMBDA m : POk(m.pos, << Pair(rule, input, pos, m.pos, << >>) >>))

\* identifier = @{ (ASCII_ALPHA | "_") ~ (ASCII_ALPHANUMERIC | "_")* }
identifier(input, pos) ==
    IF pos <= Len(input) /\ input[pos] \in ASCII_ALPHA \cup { "_" }
      THEN POk(run_end(input, pos + 1, ASCII_ALPHANUMERIC \cup { "_" }),
               << Pair("identifier", input, pos,
                       run_end(input, pos + 1, ASCII_ALPHANUMERIC \cup { "_" }), << >>) >>)
      ELSE PFail

s_paymaster == << "p", "a", "y", "m", "a", "s", "t", "e", "r" >>
s_protocol == << "p", "r", "o", "t", "o", "c", "o", "l" >>
s_entrypoint == << "e", "n", "t", "r", "y", "p", "o", "i", "n", "t" >>

\* layer_name = @{ "bundler" | "account" | "paymaster" | "protocol" | "entrypoint" }
layer_name(input, pos) ==
    choice(token("layer_name", s_bundler, input, pos),
    choice(token("layer_name", s_account, input, pos),
    choice(token("layer_name", s_paymaster, input, pos),
    choice(token("layer_name", s_protocol, input, pos),
            token("layer_name", s_entrypoint, input, pos)))))

\* integer = @{ "-"? ~ ASCII_DIGIT+ }
integer(input, pos) ==
    LET first == IF pos <= Len(input) /\ input[pos] = "-" THEN pos + 1 ELSE pos
    IN  IF first <= Len(input) /\ input[first] \in ASCII_DIGIT
          THEN POk(run_end(input, first, ASCII_DIGIT),
                   << Pair("integer", input, pos, run_end(input, first, ASCII_DIGIT), << >>) >>)
          ELSE PFail

eq(input, pos) == token("eq", << "=", "=" >>, input, pos)

neq(input, pos) == token("neq", << "!", "=" >>, input, pos)

lt(input, pos) == token("lt", << "<" >>, input, pos)

gt(input, pos) == token("gt", << ">" >>, input, pos)

lte(input, pos) == token("lte", << "<", "=" >>, input, pos)

gte(input, pos) == token("gte", << ">", "=" >>, input, pos)

and(input, pos) == token("and", << "&", "&" >>, input, pos)

or(input, pos) == token("or", << "|", "|" >>, input, pos)

not(input, pos) == token("not", << "!" >>, input, pos)

s_true == << "t", "r", "u", "e" >>
s_false == << "f", "a", "l", "s", "e" >>

\* boolean = @{ "true" | "false" }
boolean(input, pos) ==
    choice(token("boolean", s_true, input, pos), token("boolean", s_false, input, pos))

\* qualified_id = { layer_name ~ "::" ~ identifier }
qualified_id(input, pos) ==
    and_then(layer_name(input, pos), LAMBDA l :
    and_then(match_string(input, skip(input, l.pos), << ":", ":" >>), LAMBDA c :
    and_then(identifier(input, skip(input, c.pos)), LAMBDA i :
        POk(i.pos, << Pair("qualified_id", input, pos, i.pos, l.pairs \o i.pairs) >>))))

\* simple_id = { identifier }
simple_id(input, pos) ==
    and_then(identifier(input, pos), LAMBDA i :
        POk(i.pos, << Pair("simple_id", input, pos, i.pos, i.pairs) >>))

\* var_id = { qualified_id | simple_id }
var_id(input, pos) ==
    and_then(choice(qualified_id(input, pos), simple_id(input, pos)), LAMBDA v :
        POk(v.pos, << Pair("var_id", input, pos, v.pos, v.pairs) >>))

RECURSIVE expr(_, _), primary(_, _), repeat(_, _, _, _)

\* The comma between the arguments of a call or the layers of an invariant.
comma(input, pos) == match_string(input, pos, << "," >>)

\* function_call = { identifier ~ "(" ~ (expr ~ ("," ~ expr)*)? ~ ")" }
function_call(input, pos) ==
    and_then(identifier(input, pos), LAMBDA f :
    and_then(match_string(input, skip(input, f.pos), << "(" >>), LAMBDA o :
    and_then(choice(and_then(expr(input, skip(input, o.pos)), LAMBDA e :
                     and_then(repeat("expr", input, e.pos, TRUE), LAMBDA m :
                         POk(m.pos, e.pairs \o m.pairs))),
                     POk(skip(input, o.pos), << >>)), LAMBDA a :
    and_then(match_string(input, skip(input, a.pos), << ")" >>), LAMBDA c :
        POk(c.pos, << Pair("function_call", input, pos, c.pos, f.pairs \o a.pairs) >>)))))

\* atom = _{ function_call | boolean | integer | var_id }
atom(input, pos) ==
    choice(function_call(input, pos),
    choice(boolean(input, pos),
    choice(integer(input, pos),
            var_id(input, pos))))

\* primary = { "(" ~ expr ~ ")" | atom }
primary(input, pos) ==
    choice(and_then(match_string(input, pos, << "(" >>), LAMBDA o :
            and_then(expr(input, skip(input, o.pos)), LAMBDA e :
            and_then(match_string(input, skip(input, e.pos), << ")" >>), LAMBDA c :
                POk(c.pos, << Pair("primary", input, pos, c.pos, e.pairs) >>)))),
            and_then(atom(input, pos), LAMBDA a :
                POk(a.pos, << Pair("primary", input, pos, a.pos, a.pairs) >>)))

\* not*: the first "!" where the rule starts, every further one after
\* WHITESPACE*; a "!" that does not match leaves the position where it was.
RECURSIVE not_repeat(_, _, _)
not_repeat(input, pos, first) ==
    choice(and_then(not(input, IF first THEN pos ELSE skip(input, pos)), LAMBDA n :
            and_then(not_repeat(input, n.pos, FALSE), LAMBDA m :
                POk(m.pos, n.pairs \o m.pairs))),
            POk(pos, << >>))

\* unary = { not* ~ primary }
unary(input, pos) ==
    and_then(not_repeat(input, pos, TRUE), LAMBDA n :
    and_then(primary(input, skip(input, n.pos)), LAMBDA p :
        POk(p.pos, << Pair("unary", input, pos, p.pos, n.pairs \o p.pairs) >>)))


\* comparison = { unary ~ ((eq | neq | lte | gte | lt | gt) ~ unary)* }
comparison(input, pos) ==
    and_then(unary(input, pos), LAMBDA l :
    and_then(repeat("unary", input, l.pos, TRUE), LAMBDA m :
        POk(m.pos, << Pair("comparison", input, pos, m.pos, l.pairs \o m.pairs) >>)))

\* logical_and = { comparison ~ (and ~ comparison)* }
logical_and(input, pos) ==
    and_then(comparison(input, pos), LAMBDA l :
    and_then(repeat("comparison", input, l.pos, TRUE), LAMBDA m :
        POk(m.pos, << Pair("logical_and", input, pos, m.pos, l.pairs \o m.pairs) >>)))

\* logical_or = { logical_and ~ (or ~ logical_and)* }
logical_or(input, pos) ==
    and_then(logical_and(input, pos), LAMBDA l :
    and_then(repeat("logical_and", input, l.pos, TRUE), LAMBDA m :
        POk(m.pos, << Pair("logical_or", input, pos, m.pos, l.pairs \o m.pairs) >>)))

\* expr = { logical_or }
expr(input, pos) ==
    and_then(logical_or(input, pos), LAMBDA l :
        POk(l.pos, << Pair("expr", input, pos, l.pos, l.pairs) >>))

\* The operator that precedes a further operand of the given rule.
operator(operand, input, pos) ==
    CASE operand = "unary" ->
           choice(eq(input, pos), choice(neq(input, pos), choice(lte(input, pos),
           choice(gte(input, pos), choice(lt(input, pos), gt(input, pos))))))
      [] operand = "comparison" -> and(input, pos)
      [] operand = "logical_and" -> or(input, pos)
      [] operand \in { "expr", "layer_name" } -> comma(input, pos)

\* The operand rule by name.
operand_rule(operand, input, pos) ==
    CASE operand = "unary" -> unary(input, pos)
      [] operand = "comparison" -> comparison(input, pos)
      [] operand = "logical_and" -> logical_and(input, pos)
      [] operand = "expr" -> expr(input, pos)
      [] operand = "layer_name" -> layer_name(input, pos)

\* (operator ~ operand)* after a first operand that ended at pos: WHITESPACE*
\* goes before every operator and every operand, and a repetition that fails
\* consumes nothing, save the WHITESPACE* that separates the first operand
\* from the whole repetition.
repeat(operand, input, pos, first) ==
    choice(and_then(operator(operand, input, skip(input, pos)), LAMBDA o :
            and_then(operand_rule(operand, input, skip(input, o.pos)), LAMBDA r :
            and_then(repeat(operand, input, r.pos, FALSE), LAMBDA m :
                POk(m.pos, o.pairs \o r.pairs \o m.pairs)))),
            POk(IF first THEN skip(input, pos) ELSE pos, << >>))

\* invariant_def = { "invariant" ~ identifier
\*                   ~ ("(" ~ layer_name ~ ("," ~ layer_name)* ~ ")")? ~ "{" ~ expr ~ "}" }
invariant_def(input, pos) ==
    and_then(match_string(input, pos, << "i", "n", "v", "a", "r", "i", "a", "n", "t" >>), LAMBDA k :
    and_then(identifier(input, skip(input, k.pos)), LAMBDA n :
    and_then(choice(and_then(match_string(input, skip(input, n.pos), << "(" >>), LAMBDA o :
                     and_then(layer_name(input, skip(input, o.pos)), LAMBDA l :
                     and_then(repeat("layer_name", input, l.pos, TRUE), LAMBDA m :
                     and_then(match_string(input, skip(input, m.pos), << ")" >>), LAMBDA c :
                         POk(c.pos, l.pairs \o m.pairs))))),
                     POk(skip(input, n.pos), << >>)), LAMBDA g :
    and_then(match_string(input, skip(input, g.pos), << "{" >>), LAMBDA b :
    and_then(expr(input, skip(input, b.pos)), LAMBDA e :
    and_then(match_string(input, skip(input, e.pos), << "}" >>), LAMBDA c :
        POk(c.pos, << Pair("invariant_def", input, pos, c.pos,
                            n.pairs \o g.pairs \o e.pairs) >>)))))))

\* Grammar::parse(rule, input): the pairs of the rule matched at the start of
\* the input, or an error.
Grammar_parse(rule, input) ==
    CASE rule = "invariant_def" -> invariant_def(input, 1)
      [] rule = "expr" -> expr(input, 1)

(***************************************************************************)
(* dsl_parser: from the pairs of an invariant to the Invariant             *)
(***************************************************************************)

ConfigError(msg) == Err("ConfigError", msg)

\* acc * 10 + d on the 128 bits of acc, and the carry out of them.
mul10_add[val \in Seq(0..LimbMax), d \in 0..9] ==
    LET carry[i \in 0..8] ==
            IF i = 0 THEN d ELSE (val[i] * 10 + carry[i - 1]) \div (LimbMax + 1)
        limb(i) == (val[i] * 10 + carry[i - 1]) % (LimbMax + 1)
    IN  [limbs |-> << limb(1), limb(2), limb(3), limb(4), limb(5), limb(6), limb(7), limb(8) >>,
         carry |-> carry[8]]

\* One more digit of a magnitude.
push_digit[m \in [limbs : Seq(0..LimbMax), overflow : BOOLEAN], d \in 0..9] ==
    [limbs |-> mul10_add[m.limbs, d].limbs,
     overflow |-> m.overflow \/ mul10_add[m.limbs, d].carry > 0]

\* The magnitude of a run of decimal digits, and whether it left 128 bits.
magnitude[ds \in Seq(ASCII_DIGIT)] ==
    IF ds = << >> THEN [limbs |-> i128_zero, overflow |-> FALSE]
    ELSE push_digit[magnitude[SubSeq(ds, 1, Len(ds) - 1)], Code(ds[Len(ds)]) - 48]

\* The i128 of a sign and a magnitude, None outside i128::MIN..=i128::MAX.
signed[negative \in BOOLEAN, m \in [limbs : Seq(0..LimbMax), overflow : BOOLEAN]] ==
    IF m.overflow THEN None
    ELSE IF negative
      THEN IF ~is_negative(m.limbs) \/ m.limbs = i128_min
             THEN Some(wrapping_neg(m.limbs))
             ELSE None
      ELSE IF is_negative(m.limbs) THEN None ELSE Some(m.limbs)

\* str::parse::<i128> on the text of an integer pair.
parse_i128(s) ==
    IF s # << >> /\ s[1] = "-"
      THEN signed[TRUE, magnitude[Tail(s)]]
      ELSE signed[FALSE, magnitude[s]]

\* The expression that an operator pair makes of its operands; a pair of any
\* other rule leaves the left operand as it was.
apply_operator(rule, left, right) ==
    CASE rule = "and" -> Logical(left, "And", right)
      [] rule = "or"  -> Logical(left, "Or", right)
      [] rule = "eq"  -> BinaryOp(left, "Eq", right)
      [] rule = "neq" -> BinaryOp(left, "Neq", right)
      [] rule = "lt"  -> BinaryOp(left, "Lt", right)
      [] rule = "gt"  -> BinaryOp(left, "Gt", right)
      [] rule = "lte" -> BinaryOp(left, "Lte", right)
      [] rule = "gte" -> BinaryOp(left, "Gte", right)
      [] OTHER -> left

RECURSIVE parse_pair(_), parse_operators(_, _, _), parse_args(_, _)

\* The while loop of parse_pair over the items after the first: an operator
\* and its right operand at a time, items[i] being the next operator.
parse_operators(items, left, i) ==
    IF i > Len(items) THEN Ok(left)
    ELSE IF i + 1 > Len(items)
      THEN ConfigError(<< "Expected operand after operator" >>)
      ELSE and_then(parse_pair(items[i + 1]), LAMBDA right :
               parse_operators(items, apply_operator(items[i].rule, left, right.val), i + 2))

\* The arguments of a function call, up to the first that fails.
parse_args(items, i) ==
    IF i > Len(items) THEN Ok(<< >>)
    ELSE and_then(parse_pair(items[i]), LAMBDA arg :
         and_then(parse_args(items, i + 1), LAMBDA rest :
             Ok(<< arg.val >> \o rest.val)))

parse_pair(pair) ==
    CASE pair.rule \in { "expr", "logical_or", "logical_and", "comparison", "unary" } ->
           IF pair.inner = << >> THEN ConfigError(<< "Expected expression" >>)
           ELSE and_then(parse_pair(pair.inner[1]), LAMBDA left :
                    parse_operators(pair.inner, left.val, 2))
      [] pair.rule = "primary" ->
           IF pair.inner # << >> THEN parse_pair(pair.inner[1])
           ELSE ConfigError(<< "Unexpected empty primary expression" >>)
      [] pair.rule = "function_call" ->
           IF pair.inner = << >> THEN ConfigError(<< "Expected function name" >>)
           ELSE and_then(parse_args(pair.inner, 2), LAMBDA args :
                    Ok(FunctionCall(pair.inner[1].str, args.val)))
      [] pair.rule = "boolean" -> Ok(Boolean(pair.str = s_true))
      [] pair.rule = "integer" ->
           IF parse_i128(pair.str) = None THEN ConfigError(<< "Invalid integer" >>)
           ELSE Ok(IntLit(parse_i128(pair.str)[1]))
      [] pair.rule = "identifier" -> Ok(Var(pair.str))
      [] pair.rule = "qualified_id" ->
           IF Len(pair.inner) # 2 THEN ConfigError(<< "Expected layer::identifier" >>)
           ELSE Ok(LayerVar(pair.inner[1].str, pair.inner[2].str))
      [] pair.rule = "var_id" ->
           IF pair.inner # << >> /\ pair.inner[1].rule = "qualified_id"
                /\ Len(pair.inner[1].inner) = 2
             THEN Ok(LayerVar(pair.inner[1].inner[1].str, pair.inner[1].inner[2].str))
           ELSE IF pair.inner # << >> /\ pair.inner[1].rule = "simple_id"
             THEN Ok(Var(pair.inner[1].str))
           ELSE IF pair.inner # << >> /\ pair.inner[1].rule # "qualified_id"
             THEN parse_pair(pair.inner[1])
           ELSE ConfigError(<< "Expected identifier or layer::identifier" >>)
      [] OTHER -> ConfigError(<< "Unexpected rule: ", pair.rule >>)

parse_expr(rule) == parse_pair(rule)

\* str::trim_matches: the text without the characters of the set at its ends.
trim_matches(s, chars) ==
    LET keep == { i \in 1..Len(s) : s[i] \notin chars }
    IN  IF keep = {} THEN << >>
        ELSE SubSeq(s, CHOOSE i \in keep : \A j \in keep : i <= j,
                       CHOOSE i \in keep : \A j \in keep : j <= i)

\* str::trim
trim(s) == trim_matches(s, { " ", "\t", "\n", "\r" })

s_medium == << "m", "e", "d", "i", "u", "m" >>
s_general == << "g", "e", "n", "e", "r", "a", "l" >>

\* The layers and the position of the expression among the inner items of an
\* invariant_def pair.
layer_specs(inner_items) ==
    IF Len(inner_items) > 2
         /\ \/ inner_items[2].rule = "layer_name"
            \/ /\ starts_with(inner_items[2].str, << "(" >>)
               /\ contains[inner_items[2].str, << "," >>]
      THEN [layers |-> SelectSeq([i \in 1..(Len(inner_items) - 2) |->
                                     trim(trim_matches(inner_items[i + 1].str, { "(", ")", "," }))],
                                 LAMBDA item_str : item_str # << >>),
            expr_idx |-> Len(inner_items)]
      ELSE [layers |-> << >>, expr_idx |-> 2]

\* InvariantParser::parse_invariant once the grammar has matched.
invariant_of(inner_items) ==
    IF inner_items = << >>
      THEN ConfigError(<< "Expected invariant name and expression" >>)
      ELSE and_then(parse_expr(inner_items[layer_specs(inner_items).expr_idx]), LAMBDA expression :
               Ok([name |-> inner_items[1].str,
                   description |-> None,
                   expression |-> expression.val,
                   severity |-> s_medium,
                   category |-> s_general,
                   is_always_true |-> TRUE,
                   layers |-> layer_specs(inner_items).layers,
                   phases |-> << >>]))

\* InvariantParser::parse_invariant: a text the grammar rejects is a
\* ConfigError that carries the message of pest.
parse_invariant(input) ==
    CHOOSE y \in { IF g.ok THEN invariant_of(g.pairs[1].inner)
                   ELSE ConfigError(<< "pest::error::Error" >>) :
                   g \in { Grammar_parse("invariant_def", input) } } : TRUE

\* A call of parse_invariant.
ParseInvariant(input) ==
    parsed' = [kind |-> "parse_invariant", input |-> input, out |-> parse_invariant(input)]

(***************************************************************************)
(* Specification of the parser: one call on a small invariant text         *)
(***************************************************************************)

MaxNots == 2

\* The texts before the expression.
ParserHeaders ==
    { << "i", "n", "v", "a", "r", "i", "a", "n", "t", " ", "A", " ", "{", " " >>,
      << "i", "n", "v", "a", "r", "i", "a", "n", "t", " ", "B", " ", "(", "a", "c", "c", "o", "u", "n", "t", ")", " ", "{", " " >>,
      << "i", "n", "v", "a", "r", "i", "a", "n", "t", "C", "(", "b", "u", "n", "d", "l", "e", "r", " ", ",", " ", "p", "a", "y" >> \o << "m", "a", "s", "t", "e", "r", ")", "{" >> }

\* Primaries, each with the expression it stands for (None for an integer
\* outside i128 and for a parenthesised negation).
ParserPrimaries ==
    { [text |-> << "f", "l", "a", "g" >>, expr |-> Some(Var(<< "f", "l", "a", "g" >>))],
      [text |-> << "t", "r", "u", "e" >>, expr |-> Some(Boolean(TRUE))],
      [text |-> << "f", "a", "l", "s", "e" >>, expr |-> Some(Boolean(FALSE))],
      [text |-> << "4", "2" >>, expr |-> Some(IntLit(<< 42, 0, 0, 0, 0, 0, 0, 0 >>))],
      [text |-> << "-", "7" >>, expr |-> Some(IntLit(<< LimbMax - 6, LimbMax, LimbMax, LimbMax, LimbMax, LimbMax, LimbMax, LimbMax >>))],
      [text |-> << "a", "c", "c", "o", "u", "n", "t", ":", ":", "n", "o", "n", "c", "e" >>, expr |-> Some(LayerVar(s_account, << "n", "o", "n", "c", "e" >>))],
      [text |-> << "s", "u", "m", "(", "a", ",", " ", "1", ")" >>,
       expr |-> Some(FunctionCall(s_sum, << Var(<< "a" >>), IntLit(i128_one) >>))],
      [text |-> << "f", "(", ")" >>, expr |-> Some(FunctionCall(<< "f" >>, << >>))],
      [text |-> << "(", "a", " ", "<", "=", " ", "b", ")" >>, expr |-> Some(BinaryOp(Var(<< "a" >>), "Lte", Var(<< "b" >>)))],
      [text |-> << "-", "1", "7", "0", "1", "4", "1", "1", "8", "3", "4", "6", "0", "4", "6", "9", "2", "3", "1", "7", "3", "1", "6", "8" >> \o << "7", "3", "0", "3", "7", "1", "5", "8", "8", "4", "1", "0", "5", "7", "2", "8" >>, expr |-> Some(IntLit(i128_min))],
      [text |-> << "1", "7", "0", "1", "4", "1", "1", "8", "3", "4", "6", "0", "4", "6", "9", "2", "3", "1", "7", "3", "1", "6", "8", "7" >> \o << "3", "0", "3", "7", "1", "5", "8", "8", "4", "1", "0", "5", "7", "2", "8" >>, expr |-> None],
      [text |-> << "(", "!", "a", ")" >>, expr |-> None] }

\* k tokens "!", every second one followed by a space.
RECURSIVE nots(_)
nots(k) ==
    IF k = 0 THEN << >>
    ELSE nots(k - 1) \o (IF k % 2 = 0 THEN << "!", " " >> ELSE << "!" >>)

\* The text of an invariant whose expression is k tokens "!" and a primary.
negation(head, k, prim) == head \o nots(k) \o prim.text \o << " ", "}" >>

\* The same expression as the right operand of a comparison, and as the left
\* operand of a conjunction.
ParserSources ==
    UNION { { negation(head, k, prim),
              head \o << "x", " ", "=", "=", " " >> \o nots(k) \o prim.text \o << "}" >>,
              head \o nots(k) \o prim.text \o << " ", "&", "&", " ", "y", " ", ">", " ", "0", " ", "}" >> } :
            head \in ParserHeaders, k \in 0..MaxNots, prim \in ParserPrimaries }
    \cup { << "i", "n", "v", "a", "r", "i", "a", "n", "t", " ", "E", "m", "p", "t", "y", " ", "{", " ", "}" >>, << "i", "n", "v", "a", "r", "i", "a", "n", "t", " ", "A", " ", "{", " ", "f", "l", "a", "g" >>, << "i", "n", "v", "a", "r", "i", "a", "n", "t", " ", "A", " ", "{", " ", "a", " ", "!", "=", " ", "b", " ", "|", "|", " " >> \o << "c", " ", "}" >> }

ParserFrame ==
    UNCHANGED << evalVars, checkerVars, aaVars, sandbox, tamper,
                 generated, verifier, security, build, modelVars >>

NextParser ==
    /\ parsed = NoCall
    /\ \E input \in ParserSources : ParseInvariant(input)
    /\ ParserFrame

SpecParser == Init /\ [][NextParser]_vars

\* k nested Not nodes around an expression.
RECURSIVE nested_not(_, _)
nested_not(k, e) == IF k = 0 THEN e ELSE Not(nested_not(k - 1, e))

\* C20: for an expression made of k >= 1 leading "!" tokens and a primary,
\* parse_invariant succeeds and yields the expression of the primary wrapped
\* in k nested Not nodes.
C20_NegationParsed ==
    \A head \in ParserHeaders, k \in 1..MaxNots, prim \in ParserPrimaries :
        /\ parsed.kind = "parse_invariant"
        /\ parsed.input = negation(head, k, prim)
        /\ prim.expr # None
        => /\ parsed.out.ok
           /\ parsed.out.val.expression = nested_not(k, prim.expr[1])

(***************************************************************************)
(* Specification of chained comparisons: a text with two comparison        *)
(* operators is parsed, and its expression checked under every declaration *)
(* of its three variables                                                  *)
(***************************************************************************)

s_c == << "c" >>

\* The invariant `a op1 b op2 c`, spaced and unspaced.
chained(op1, op2) ==
    << "i", "n", "v", "a", "r", "i", "a", "n", "t", " ", "I", " ", "{", " ", "a", " " >> \o fmt_BinaryOp(op1) \o << " ", "b", " " >> \o fmt_BinaryOp(op2) \o << " ", "c", " ", "}" >>

chained_unspaced(op1, op2) ==
    << "i", "n", "v", "a", "r", "i", "a", "n", "t", " ", "I", "{", "a" >> \o fmt_BinaryOp(op1) \o << "b" >> \o fmt_BinaryOp(op2) \o << "c", "}" >>

ChainedSources ==
    { chained(op1, op2) : op1 \in BinaryOps, op2 \in BinaryOps }
    \cup { chained_unspaced(op1, op2) : op1 \in BinaryOps, op2 \in BinaryOps }

ChainedFrame ==
    UNCHANGED << state_vars, functions, aaVars, sandbox, tamper,
                 generated, verifier, security, build, modelVars >>

NextChained ==
    \/ /\ call = NoCall
       /\ \E name \in { s_a, s_b, s_c }, ty \in Types : register_state_var(name, ty)
       /\ UNCHANGED << call, parsed >> /\ ChainedFrame
    \/ /\ parsed = NoCall
       /\ \E input \in ChainedSources : ParseInvariant(input)
       /\ UNCHANGED << call, checkerVars >> /\ ChainedFrame
    \/ /\ call = NoCall
       /\ parsed.kind = "parse_invariant"
       /\ parsed.out.ok
       /\ TypeCheck(parsed.out.val.expression)
       /\ UNCHANGED parsed /\ ChainedFrame

SpecChained == Init /\ [][NextChained]_vars

Relational == { "Lt", "Gt", "Lte", "Gte" }

\* The left fold of `a op1 b op2 c`.
left_fold(op1, op2) == BinaryOp(BinaryOp(Var(s_a), op1, Var(s_b)), op2, Var(s_c))

\* C21: `a op1 b op2 c` with op1, op2 among <, >, <=, >= is parsed into
\* BinaryOp{BinaryOp{a, op1, b}, op2, c}, and the type checker rejects that tree
\* whatever types a, b and c are declared with.
C21_ChainedComparisonRejected ==
    \A op1 \in Relational, op2 \in Relational :
        /\ (parsed.kind = "parse_invariant"
              /\ parsed.input \in { chained(op1, op2), chained_unspaced(op1, op2) })
             => /\ parsed.out.ok
                /\ parsed.out.val.expression = left_fold(op1, op2)
        /\ (call.kind = "checked" /\ call.expr = left_fold(op1, op2))
             => ~call.check.ok

\* `a < b <= c` parsed and checked with a, b and c all declared U64: the inner
\* comparison is a Bool, which `<=` does not order.
C21_Witness ==
    /\ parsed.kind = "parse_invariant"
    /\ parsed.input = chained("Lt", "Lte")
    /\ call.kind = "checked"
    /\ call.expr = left_fold("Lt", "Lte")
    /\ DOMAIN tc_state_vars = { s_a, s_b, s_c }
    /\ \A k \in DOMAIN tc_state_vars : tc_state_vars[k] = "U64"
    /\ call.check = TErr([kind |-> "IncomparableTypes", left |-> "Bool", right |-> "U64"])

(***************************************************************************)
(* Claims about the evaluator and its context                              *)
(***************************************************************************)

\* C22: an evaluate call, whether it returns a Value or an EvaluationError, leaves
\* state_vars and functions exactly as they were, and evaluating the same expression
\* again on the context as it then stands returns an equal result.
C22_EvaluateKeepsContext ==
    [][(call.kind # "evaluate" /\ call'.kind = "evaluate") =>
         /\ state_vars' = state_vars
         /\ functions' = functions
         /\ evaluate(call'.expr, [state_vars |-> state_vars', functions |-> functions'],
                     << >>).res = call'.out.res]_vars

\* min(0, n) has failed on its second argument, after the first was evaluated, in a
\* context that holds a binding and the callback.
C22_Witness ==
    /\ call.kind = "evaluate"
    /\ call.expr = FunctionCall(s_min, << IntLit(i128_zero), Var(s_n) >>)
    /\ call.out.res = Err("UndefinedVariable", s_n)
    /\ call.out.log = << << >>, << 1 >>, << 2 >> >>
    /\ DOMAIN state_vars = { qualified(s_account, s_n) }
    /\ DOMAIN functions = { s_min }

(***************************************************************************)
(* Specification of parsing and then evaluating: the expression of an      *)
(* accepted invariant text is evaluated in a context a driver has built    *)
(***************************************************************************)

\* Operands of the texts, every kind of primary the grammar has.
PipelineOperands ==
    { << "n" >>, << "a", "c", "c", "o", "u", "n", "t", ":", ":", "n" >>, << "0" >>, << "-", "1" >>, << "1", "8", "4", "4", "6", "7", "4", "4", "0", "7", "3", "7", "0", "9", "5", "5", "1", "6", "1", "6" >>, << "t", "r", "u", "e" >>,
      << "m", "i", "n", "(", "n", ",", " ", "0", ")" >>, << "f", "(", ")" >>, << "(", "n", " ", ">", "=", " ", "1", ")" >> }

\* The texts of the operators of the grammar.
PipelineOperators ==
    { << "=", "=" >>, << "!", "=" >>, << "<" >>, << ">" >>, << "<", "=" >>, << ">", "=" >>, << "&", "&" >>, << "|", "|" >> }

\* Invariant texts: one operand, two operands around an operator, a chain of
\* three, a call inside a call, and one the parser rejects.
PipelineSources ==
    { << "i", "n", "v", "a", "r", "i", "a", "n", "t", " ", "P", " ", "{", " " >> \o l \o << " ", "}" >> : l \in PipelineOperands }
    \cup { << "i", "n", "v", "a", "r", "i", "a", "n", "t", " ", "P", " ", "{", " " >> \o l \o << " " >> \o op \o << " " >> \o r \o << " ", "}" >> :
             l \in PipelineOperands, op \in PipelineOperators,
             r \in { << "n" >>, << "0" >>, << "-", "1" >>, << "t", "r", "u", "e" >>, << "m", "i", "n", "(", "n", ",", " ", "0", ")" >> } }
    \cup { << "i", "n", "v", "a", "r", "i", "a", "n", "t", " ", "P", " ", "{", " ", "n", " ", "<", " ", "1", " ", "&", "&", " ", "a" >> \o << "c", "c", "o", "u", "n", "t", ":", ":", "n", " ", "!", "=", " ", "0", " ", "|", "|", " ", "f", "(", ")", " ", "}" >>,
           << "i", "n", "v", "a", "r", "i", "a", "n", "t", " ", "P", " ", "{", " ", "m", "i", "n", "(", "m", "i", "n", "(", "n", "," >> \o << " ", "1", ")", ",", " ", "1", "8", "4", "4", "6", "7", "4", "4", "0", "7", "3", "7", "0", "9", "5", "5", "1", "6", "1" >> \o << "6", ")", " ", "=", "=", " ", "0", " ", "}" >>,
           << "i", "n", "v", "a", "r", "i", "a", "n", "t", " ", "P", " ", "{", " ", "!", "n", " ", "}" >> }

PipelineFrame ==
    UNCHANGED << checkerVars, aaVars, sandbox, tamper, generated, verifier, security, build, modelVars >>

NextPipeline ==
    \/ /\ parsed = NoCall
       /\ call = NoCall
       /\ \E input \in PipelineSources : ParseInvariant(input)
       /\ UNCHANGED evalVars
       /\ PipelineFrame
    \/ \E k \in BoundKeys, v \in BoundValues :
         set_state(k, v, MaxBindings) /\ UNCHANGED parsed /\ PipelineFrame
    \/ \E func \in Natives :
         register_function(s_min, func) /\ UNCHANGED parsed /\ PipelineFrame
    \/ register_function(s_f, "native_fail") /\ UNCHANGED parsed /\ PipelineFrame
    \/ /\ call = NoCall
       /\ parsed.kind = "parse_invariant"
       /\ parsed.out.ok
       /\ Evaluate(parsed.out.val.expression)
       /\ UNCHANGED parsed
       /\ PipelineFrame

SpecPipeline == Init /\ [][NextPipeline]_vars

\* The variants of Value.
is_value(v) ==
    \/ v.t = "Bool" /\ v.b \in BOOLEAN
    \/ v.t \in { "U64", "I64" } /\ v.n \in Seq(0..LimbMax) /\ Len(v.n) = 4
    \/ v.t = "U128" /\ v.n \in Seq(0..LimbMax) /\ Len(v.n) = 8
    \/ v.t = "Address"

\* The variants of EvaluationError.
EvaluationErrors ==
    { "Overflow", "Underflow", "TypeError", "DivisionByZero", "UndefinedVariable",
      "UndefinedFunction", "InvalidArgument", "ConversionOverflow", "Custom" }

MaxCallBindings == 2

\* Arguments: a literal, two variables, a comparison that is a type error and
\* a call.
CallArgs ==
    { IntLit(i128_zero), Var(s_n), Var(s_m),
      BinaryOp(Boolean(TRUE), "Lt", IntLit(i128_zero)),
      FunctionCall(s_f, << Var(s_m) >>) }

\* Sequences over S of length at most 3.
UpTo3(S) == UpTo2(S) \cup { << a, b, c >> : a \in S, b \in S, c \in S }

CallExprs == { FunctionCall(name, args) : name \in { s_min, s_f }, args \in UpTo3(CallArgs) }

NextCalls ==
    \/ \E k \in { s_n, s_m }, v \in { U64(n64(0)), U64(n64(1)) } :
         set_state(k, v, MaxCallBindings) /\ EvalFrame
    \/ \E func \in Natives \cup { "native_first" } : register_function(s_min, func) /\ EvalFrame
    \/ \E func \in { "native_fail", "native_first" } : register_function(s_f, func) /\ EvalFrame
    \/ \E e \in CallExprs : call = NoCall /\ Evaluate(e) /\ EvalFrame

SpecCalls == Init /\ [][NextCalls]_vars

\* C24: a call of an unregistered function is UndefinedFunction and enters no
\* argument; otherwise the arguments are entered from left to right up to the
\* first that fails, whose error is the result; when none fails the result is
\* that of the callback on the values in argument order.
C24_CallOrder ==
    (call.kind = "evaluate" /\ call.expr.tag = "FunctionCall") =>
        LET ctx == [state_vars |-> state_vars, functions |-> functions]
            args == call.expr.args
            arg[i \in 1..Len(args)] == evaluate(args[i], ctx, << i >>)
            failing == { i \in 1..Len(args) : ~arg[i].res.ok }
            entered[i \in 0..Len(args)] ==
                IF i = 0 THEN << << >> >> ELSE entered[i - 1] \o arg[i].log
        IN  IF call.expr.name \notin DOMAIN functions
              THEN call.out = [res |-> Err("UndefinedFunction", call.expr.name),
                               log |-> << << >> >>]
            ELSE IF failing # {}
              THEN LET k == CHOOSE i \in failing : \A j \in failing : i <= j
                   IN  /\ call.out.res = arg[k].res
                       /\ call.out.log = entered[k]
            ELSE /\ call.out.res = call_native(functions[call.expr.name],
                                               [i \in 1..Len(args) |-> arg[i].res.val])
                 /\ call.out.log = entered[Len(args)]

\* C24 witness: min(m, true < 0, f(m)) with min registered and m unbound
\* returned the error of m, the leftmost of three failing arguments, and
\* entered no later argument.
C24_Witness ==
    /\ call.kind = "evaluate"
    /\ call.expr = FunctionCall(s_min, << Var(s_m),
                                          BinaryOp(Boolean(TRUE), "Lt", IntLit(i128_zero)),
                                          FunctionCall(s_f, << Var(s_m) >>) >>)
    /\ s_min \in DOMAIN functions
    /\ s_m \notin DOMAIN state_vars
    /\ call.out.res = Err("UndefinedVariable", s_m)
    /\ call.out.log = << << >>, << 1 >> >>

(***************************************************************************)
(* Specification of ProgramModel: state variables and functions are added  *)
(* in any order, a name any number of times                                *)
(***************************************************************************)

s_total_supply == << "t", "o", "t", "a", "l", "_", "s", "u", "p", "p", "l", "y" >>
s_withdraw == << "w", "i", "t", "h", "d", "r", "a", "w" >>

\* The state variables a driver adds.
ModelStateVars ==
    { [name |-> name, type_name |-> << "u", "6", "4" >>, is_mutable |-> is_mutable, visibility |-> None] :
        name \in { s_balance, s_total_supply }, is_mutable \in BOOLEAN }

\* The functions a driver adds: two names, every set of mutated variables.
ModelFunctions ==
    { [name |-> name, parameters |-> << >>, return_type |-> None, mutates |-> mutates,
       reads |-> {}, is_entry_point |-> TRUE, is_pure |-> is_pure] :
        name \in { s_deposit, s_withdraw }, mutates \in SUBSET { s_balance, s_total_supply },
        is_pure \in BOOLEAN }

ModelFrame ==
    UNCHANGED << evalVars, checkerVars, aaVars, sandbox, tamper, toolVars >>

NextModel ==
    \/ \E var \in ModelStateVars : add_state_var(var) /\ ModelFrame
    \/ \E func \in ModelFunctions : add_function(func) /\ ModelFrame

SpecModel == Init /\ [][NextModel]_vars

\* mutation_graph has the keys of functions and, for each, its mutates set.
mutation_graph_mirrors_functions ==
    /\ DOMAIN model.mutation_graph = DOMAIN model.functions
    /\ \A f \in DOMAIN model.functions :
         /\ model.functions[f].name = f
         /\ model.mutation_graph[f] = model.functions[f].mutates

\* C25: after any sequence of add_function and add_state_var calls,
\* mutation_graph has exactly the keys of functions and maps each to the
\* mutates set of the function; a step that changes state_vars leaves
\* functions and mutation_graph as they were.
C25_MutationGraphMirrorsFunctions ==
    /\ [] mutation_graph_mirrors_functions
    /\ [][model'.state_vars # model.state_vars =>
            /\ model'.functions = model.functions
            /\ model'.mutation_graph = model.mutation_graph]_vars

\* C25 witness: both functions and a state variable are present, deposit
\* mutates both variables and is pure, withdraw mutates none.
C25_Witness ==
    /\ DOMAIN model.functions = { s_deposit, s_withdraw }
    /\ DOMAIN model.state_vars = { s_balance }
    /\ model.functions[s_deposit].mutates = { s_balance, s_total_supply }
    /\ model.functions[s_deposit].is_pure
    /\ model.mutation_graph[s_withdraw] = {}
    /\ mutation_graph_mirrors_functions

(***************************************************************************)
(* Claims about the effects of the operations of the phase context         *)
(***************************************************************************)

\* The step wrote at most the slot (layer, var) of the live state: every
\* other slot reads as before and no other layer appeared or went away.
only_slot_written(layer, var) ==
    /\ \A sl \in Slots :
         sl # << layer, var >> =>
           get_layer_var(layer_state', sl[1], sl[2]) = get_layer_var(layer_state, sl[1], sl[2])
    /\ DOMAIN layer_state' = DOMAIN layer_state \cup { layer }
    /\ \A l \in DOMAIN layer_state :
         DOMAIN layer_state'[l] = DOMAIN layer_state[l] \cup (IF l = layer THEN { var } ELSE {})

\* The step replaced at most the snapshot of one phase, by the live state.
only_snapshot_replaced(phase) ==
    /\ DOMAIN phase_snapshots' = DOMAIN phase_snapshots \cup { as_str(phase) }
    /\ phase_snapshots'[as_str(phase)] = layer_state
    /\ \A p \in DOMAIN phase_snapshots :
         p # as_str(phase) => phase_snapshots'[p] = phase_snapshots[p]

\* C26: a step that changes current_phase changes neither the live state nor
\* the snapshots; a step that changes the snapshots replaces the snapshot of
\* one phase by the live state, whatever current_phase is, and changes nothing
\* else; a step that changes the live state writes one slot of it and changes
\* nothing else; a phase that was never snapshotted reads as None.
C26_DisjointEffects ==
    /\ [][/\ current_phase' # current_phase =>
               UNCHANGED << layer_state, phase_snapshots >>
          /\ phase_snapshots' # phase_snapshots =>
               /\ \E phase \in ExecutionPhase : only_snapshot_replaced(phase)
               /\ UNCHANGED << layer_state, current_phase >>
          /\ layer_state' # layer_state =>
               /\ \E sl \in Slots : only_slot_written(sl[1], sl[2])
               /\ UNCHANGED << current_phase, phase_snapshots >>]_vars
    /\ [](\A phase \in ExecutionPhase : \A sl \in Slots :
            phase \notin DOMAIN observed =>
              get_layer_var_at_phase(phase_snapshots, phase, sl[1], sl[2]) = << >>)

\* C26 witness: during validation the settlement snapshot was taken, then
\* replaced after the nonce was written, and the balance was lowered since;
\* the execution phase was never snapshotted and reads as None.
C26_Witness ==
    /\ current_phase = "Validation"
    /\ DOMAIN phase_snapshots = { s_settlement }
    /\ get_layer_var_at_phase(phase_snapshots, "Settlement", s_account, s_balance) = << 1000 >>
    /\ get_layer_var_at_phase(phase_snapshots, "Settlement", s_account, s_nonce) = << 42 >>
    /\ get_layer_var(layer_state, s_account, s_balance) = << 500 >>
    /\ get_layer_var(layer_state, s_bundler, s_nonce) = << >>
    /\ get_layer_var_at_phase(phase_snapshots, "Execution", s_account, s_balance) = << >>

(***************************************************************************)
(* Specification of the dependency graph: calls and mutations are added,   *)
(* cycles and self-calls among them, and a function is asked about         *)
(***************************************************************************)

MaxCalls == 3
MaxMutations == 2
MaxReads == 1

s_g == << "g" >>
s_h == << "h" >>
s_k == << "k" >>
s_x == << "x" >>
s_y == << "y" >>

\* (caller, callee) pairs: a cycle of three, a self-call and a call of a
\* function that calls nothing.
CallPairs ==
    { << s_f, s_g >>, << s_g, s_h >>, << s_h, s_f >>, << s_g, s_g >>, << s_h, s_k >> }

\* (state variable, function) pairs.
MutationPairs == { << s_x, s_h >>, << s_y, s_g >>, << s_y, s_k >> }

\* The number of items in the lists of a map.
total_len(map) ==
    LET RECURSIVE sum_over(_)
        sum_over(keys) ==
            IF keys = {} THEN 0
            ELSE LET key == CHOOSE key \in keys : TRUE
                 IN  Len(map[key]) + sum_over(keys \ { key })
    IN  sum_over(DOMAIN map)

GraphFrame ==
    UNCHANGED << evalVars, checkerVars, aaVars, sandbox, tamper, toolVars >>

NextGraph ==
    \/ /\ analysis.last = NoCall
       /\ total_len(analysis.call_graph) < MaxCalls
       /\ \E pair \in CallPairs : add_call(pair[1], pair[2])
       /\ GraphFrame
    \/ /\ analysis.last = NoCall
       /\ total_len(analysis.mutation_sources) < MaxMutations
       /\ \E pair \in MutationPairs : add_mutation(pair[1], pair[2])
       /\ GraphFrame
    \/ /\ analysis.last = NoCall
       /\ total_len(analysis.read_deps) < MaxReads
       /\ add_read(s_f, s_x)
       /\ GraphFrame
    \/ /\ analysis.last = NoCall
       /\ \E func \in { s_f, s_g, s_h, s_k } : TransitiveMutations(func)
       /\ GraphFrame

SpecGraph == Init /\ [][NextGraph]_vars

\* The functions reachable from func in at most n calls.
RECURSIVE reachable(_, _, _)
reachable(graph, func, n) ==
    IF n = 0 THEN { func }
    ELSE LET near == reachable(graph, func, n - 1)
         IN  near \cup { callee \in { s_f, s_g, s_h, s_k } :
                           \E caller \in near \cap DOMAIN graph.call_graph :
                               vec_contains(graph.call_graph[caller], callee) }

\* C27: transitive_mutations(f) returns a state variable exactly when a
\* function reachable from f through call_graph, f included, is among the
\* mutation sources of the variable; it returns on cyclic graphs.
C27_TransitiveMutations ==
    analysis.last # NoCall =>
        \A state_var \in { s_x, s_y } :
            vec_contains(analysis.last.out, state_var)
              <=> /\ state_var \in DOMAIN analysis.mutation_sources
                  /\ \E function \in reachable(analysis, analysis.last.func, 4) :
                         vec_contains(analysis.mutation_sources[state_var], function)

\* C27 witness: on the cycle f -> g -> h -> f, with x mutated by h and y by
\* k, which f does not reach, transitive_mutations(f) is [x].
C27_Witness ==
    /\ analysis.call_graph = (s_f :> << s_g >>) @@ (s_g :> << s_h >>) @@ (s_h :> << s_f >>)
    /\ analysis.mutation_sources = (s_x :> << s_h >>) @@ (s_y :> << s_k >>)
    /\ analysis.last # NoCall
    /\ analysis.last.func = s_f
    /\ analysis.last.out = << s_x >>

(***************************************************************************)
(* Specification of the two hashes: the macro hashes a list of checks and  *)
(* the detector verifies the comment made of it against a list             *)
(***************************************************************************)

MaxMacroChecks == 3

MacroCheckLists == UNION { ListsOf({ s_a, s_ba, s_supply }, len) : len \in 0..MaxMacroChecks }

NextMacroHash ==
    \/ /\ tamper = NoCall
       /\ \E checks \in MacroCheckLists : ComputeCheckHash(checks)
       /\ TamperFrame
    \/ /\ tamper.kind = "check_hash"
       /\ \E checks \in MacroCheckLists : VerifyTampering(hash_comment(tamper.hash), checks)
       /\ TamperFrame

SpecMacroHash == Init /\ [][NextMacroHash]_vars

dangerous_patterns ==
    << << "u", "n", "s", "a", "f", "e" >>, << "e", "x", "t", "e", "r", "n" >>, << "u", "s", "e", " ", "s", "t", "d", ":", ":", "p", "r", "o", "c", "e", "s", "s" >>, << "s", "t", "d", ":", ":", "f", "s" >>, << "s", "t", "d", ":", ":", "n", "e", "t" >> >>

msg_dangerous_pattern == << "d", "a", "n", "g", "e", "r", "o", "u", "s", " ", "p", "a", "t", "t", "e", "r", "n", " ", "f", "o", "u", "n", "d", " " >> \o << "i", "n", " ", "g", "e", "n", "e", "r", "a", "t", "e", "d", " ", "c", "o", "d", "e", ":", " " >>

\* for pattern in &dangerous_patterns { if generated_code.contains(pattern) { return Err(..) } }
RECURSIVE verify_scope_from(_, _)
verify_scope_from(generated_code, i) ==
    IF i > Len(dangerous_patterns) THEN ThreatOk
    ELSE IF contains[generated_code, dangerous_patterns[i]]
      THEN ReParseVerificationFailed(msg_dangerous_pattern \o dangerous_patterns[i])
      ELSE verify_scope_from(generated_code, i + 1)

\* InjectionVerifier::verify_scope_containment
verify_scope_containment(generated_code) == verify_scope_from(generated_code, 1)

\* A call of InjectionVerifier::verify_scope_containment.
VerifyScopeContainment(generated_code) ==
    verifier' = [kind |-> "scope", text |-> generated_code,
                 out |-> verify_scope_containment(generated_code)]

(***************************************************************************)
(* Specification of the sandbox followed by scope containment: an          *)
(* expression is validated and, when accepted, the text that carries its   *)
(* check and the hash of it is verified                                    *)
(***************************************************************************)

\* The text of a check and of its hash, a line each.
check_text(check) ==
    s_Invariant \o check \o << "\n" >> \o hash_line(compute_hash(<< check >>)) \o << "\n" >>

ScopeAtoms ==
    { Boolean(TRUE) }
    \cup { Var(name) : name \in { s_n, s_balance, << "u", "n", "s", "a", "f", "e" >>, << "i", "s", "_", "u", "n", "s", "a", "f", "e" >>, << "e", "x", "t", "e", "r", "n", "a", "l" >>,
                                  << "u", "n", "s", "a", "f", "e", "_", "v" >>, << "f", "i", "l", "e", "_", "h" >> } }
    \cup { LayerVar(layer, var) : layer \in { s_account, << "s", "t", "d" >> }, var \in { s_n, << "f", "s" >>, << "n", "e", "t" >> } }

ScopeExprs ==
    ScopeAtoms
    \cup { BinaryOp(leaf, op, IntLit(i128_zero)) : leaf \in ScopeAtoms, op \in BinaryOps }
    \cup { Not(leaf) : leaf \in ScopeAtoms }
    \cup { FunctionCall(s_min, << a, b >>) : a \in ScopeAtoms, b \in { Var(s_n), Var(<< "e", "x", "t", "e", "r", "n" >>) } }

ScopeFrame ==
    UNCHANGED << evalVars, checkerVars, aaVars, tamper, generated, security, build, parsed,
                 modelVars >>

NextScope ==
    \/ /\ sandbox = NoCall
       /\ \E e \in ScopeExprs : ValidateExpression(e)
       /\ UNCHANGED verifier
       /\ ScopeFrame
    \/ /\ sandbox.kind = "validate"
       /\ sandbox.out.ok
       /\ verifier = NoCall
       /\ VerifyScopeContainment(check_text(fmt(sandbox.expr)))
       /\ UNCHANGED sandbox
       /\ ScopeFrame

SpecScope == Init /\ [][NextScope]_vars

\* C29: when the expression of a check passes validate_expression, the text
\* made of the "// Invariant: <check>" line and the INVAR_HASH line of the
\* check is accepted by verify_scope_containment, as it is by verify_coverage.
C29_SandboxedCheckContained ==
    (/\ sandbox.kind = "validate"
     /\ sandbox.out.ok
     /\ verifier.kind = "scope"
     /\ verifier.text = check_text(fmt(sandbox.expr)))
      => /\ verifier.out = ThreatOk
         /\ verify_coverage(verifier.text, << fmt(sandbox.expr) >>) = ThreatOk

\* The sandbox-accepted checks that scope containment rejects all carry one of
\* the dangerous patterns in a name, and no other accepted check is rejected.
C29_RejectedOnlyForNames ==
    (/\ sandbox.kind = "validate"
     /\ sandbox.out.ok
     /\ verifier.kind = "scope")
      => /\ verify_coverage(verifier.text, << fmt(sandbox.expr) >>) = ThreatOk
         /\ (verifier.out = ThreatOk
               <=> \A i \in 1..Len(dangerous_patterns) :
                      ~contains[fmt(sandbox.expr), dangerous_patterns[i]])

\* The variable named unsafe passed the sandbox and its text was rejected.
C29_UnsafeRejected ==
    /\ sandbox.kind = "validate"
    /\ sandbox.expr = Var(<< "u", "n", "s", "a", "f", "e" >>)
    /\ sandbox.out.ok
    /\ verifier.kind = "scope"
    /\ verifier.out = ReParseVerificationFailed(msg_dangerous_pattern \o << "u", "n", "s", "a", "f", "e" >>)

(***************************************************************************)
(* `invar report` (crates/cli/src/main.rs)                                 *)
(***************************************************************************)

\* const MIN_INVARIANT_COUNT: usize = 1
MIN_INVARIANT_COUNT == 1

\* const TARGET_COVERAGE_PERCENTAGE: usize = 100
TARGET_COVERAGE_PERCENTAGE == 100

s_invariant == << "i", "n", "v", "a", "r", "i", "a", "n", "t" >>
s_violation == << "v", "i", "o", "l", "a", "t", "i", "o", "n" >>

\* a - b on usize: the difference when it is not negative; otherwise a panic
\* in a build with overflow checks and the difference modulo 2^64 in one
\* without.  The result is a 64-bit word.
usize_sub(a, b, overflow_checks) ==
    IF a >= b THEN [panic |-> FALSE, val |-> << a - b, 0, 0, 0 >>]
    ELSE IF overflow_checks THEN [panic |-> TRUE, val |-> << >>]
    ELSE [panic |-> FALSE, val |-> << LimbMax + 1 - (b - a), LimbMax, LimbMax, LimbMax >>]

\* write!(f, "{}", n) for a 64-bit word
fmt_word(val) == IF is_zero(val) THEN << "0" >> ELSE digits(val)

\* The report of a format from the three counts.
report_content(format, invariant_count, protected, violation_count) ==
    CASE format = "json" ->
           << "{", "\"", "i", "n", "v", "a", "r", "i", "a", "n", "t", "s", "\"", ":", " " >> \o fmt_usize(invariant_count)
           \o << ",", " ", "\"", "p", "r", "o", "t", "e", "c", "t", "e", "d", "\"", ":", " " >> \o fmt_word(protected)
           \o << ",", " ", "\"", "v", "i", "o", "l", "a", "t", "i", "o", "n", "s", "\"", ":", " " >> \o fmt_usize(violation_count)
           \o << ",", " ", "\"", "c", "o", "v", "e", "r", "a", "g", "e", "\"", ":", " " >> \o fmt_usize(TARGET_COVERAGE_PERCENTAGE) \o << "}" >>
      [] format = "markdown" ->
           << "#", " ", "I", "n", "v", "a", "r", "i", "a", "n", "t", " ", "R", "e", "p", "o", "r", "t", "\n", "\n", "-", " ", "*", "*" >> \o << "I", "n", "v", "a", "r", "i", "a", "n", "t", "s", "*", "*", ":", " " >> \o fmt_usize(invariant_count)
           \o << "\n", "-", " ", "*", "*", "P", "r", "o", "t", "e", "c", "t", "e", "d", "*", "*", ":", " " >> \o fmt_word(protected)
           \o << "\n", "-", " ", "*", "*", "V", "i", "o", "l", "a", "t", "i", "o", "n", "s", "*", "*", ":", " " >> \o fmt_usize(violation_count)
           \o << "\n", "-", " ", "*", "*", "C", "o", "v", "e", "r", "a", "g", "e", "*", "*", ":", " " >> \o fmt_usize(TARGET_COVERAGE_PERCENTAGE) \o << "%", "\n" >>
      [] format = "cli" ->
           << "I", "n", "v", "a", "r", "i", "a", "n", "t", "s", ":", " " >> \o fmt_usize(invariant_count)
           \o << "\n", "P", "r", "o", "t", "e", "c", "t", "e", "d", ":", " " >> \o fmt_word(protected)
           \o << "\n", "V", "i", "o", "l", "a", "t", "i", "o", "n", "s", ":", " " >> \o fmt_usize(violation_count)
           \o << "\n", "C", "o", "v", "e", "r", "a", "g", "e", ":", " " >> \o fmt_usize(TARGET_COVERAGE_PERCENTAGE) \o << "%" >>

\* The outcomes of a run: an error returned, a panic, or the report written
\* or printed.
ReportErr(msg) == [status |-> "err", msg |-> msg, content |-> << >>, written |-> FALSE]
ReportPanic == [status |-> "panic", msg |-> << "a", "t", "t", "e", "m", "p", "t", " ", "t", "o", " ", "s", "u", "b", "t", "r", "a", "c", "t", " ", "w", "i", "t", "h" >> \o << " ", "o", "v", "e", "r", "f", "l", "o", "w" >>,
                content |-> << >>, written |-> FALSE]
ReportOk(content, written) ==
    [status |-> "ok", msg |-> << >>, content |-> content, written |-> written]

\* The two counts of an input content.
ReportCounts(input_content) ==
    [invariant_count |-> max(matches_count(input_content, s_invariant, 1), MIN_INVARIANT_COUNT),
     violation_count |-> matches_count(input_content, s_violation, 1)]

\* generate_report.  The input file is absent, unreadable or has a content;
\* the output is none, a path that can be written or one that cannot.
generate_report(input, format, output, overflow_checks) ==
    IF input.state = "absent" THEN ReportErr(<< "I", "n", "p", "u", "t", " ", "f", "i", "l", "e", " ", "n", "o", "t", " ", "f", "o", "u", "n", "d" >>)
    ELSE IF format \notin { "json", "markdown", "cli" } THEN ReportErr(<< "U", "n", "k", "n", "o", "w", "n", " ", "f", "o", "r", "m", "a", "t" >>)
    ELSE IF input.state = "unreadable" THEN ReportErr(<< "F", "a", "i", "l", "e", "d", " ", "t", "o", " ", "r", "e", "a", "d", " ", "i", "n", "p", "u", "t", " ", "f", "i", "l" >> \o << "e" >>)
    ELSE LET counts == ReportCounts(input.content)
             protected == usize_sub(counts.invariant_count, counts.violation_count,
                                    overflow_checks)
         IN  IF protected.panic THEN ReportPanic
             ELSE IF output = "unwritable" THEN ReportErr(<< "w", "r", "i", "t", "e" >>)
             ELSE ReportOk(report_content(format, counts.invariant_count, protected.val,
                                          counts.violation_count),
                           output = "writable")

\* A run of `invar report` in a build with or without overflow checks.
GenerateReport(input, format, output, overflow_checks) ==
    /\ reported' = [kind |-> "report", input |-> input, format |-> format, output |-> output,
                    overflow_checks |-> overflow_checks,
                    out |-> generate_report(input, format, output, overflow_checks)]
    /\ UNCHANGED << model, analysis >>

(***************************************************************************)
(* Specification of a report run over small input files                    *)
(***************************************************************************)

MaxReportSegments == 3

ReportSegments ==
    { s_invariant, s_violation, << " " >>, << "i", "n", "v", "a", "r", "i", "a", "n", "t", "s", ":", " ", "2", "\n" >>, << "n", "o", " ", "v", "i", "o", "l", "a", "t", "i", "o", "n", "s" >> }

RECURSIVE ReportContents(_)
ReportContents(n) ==
    IF n = 0 THEN { << >> }
    ELSE ReportContents(n - 1)
         \cup { content \o segment : content \in ReportContents(n - 1), segment \in ReportSegments }

ReportInputs ==
    { [state |-> "absent", content |-> << >>], [state |-> "unreadable", content |-> << >>] }
    \cup { [state |-> "content", content |-> content] : content \in ReportContents(MaxReportSegments) }

ReportFrame ==
    UNCHANGED << evalVars, checkerVars, aaVars, sandbox, tamper, toolVars >>

NextReport ==
    /\ reported = NoCall
    /\ \E input \in ReportInputs, format \in { "json", "markdown", "cli", "html" },
          output \in { "none", "writable", "unwritable" }, overflow_checks \in BOOLEAN :
           GenerateReport(input, format, output, overflow_checks)
    /\ ReportFrame

SpecReport == Init /\ [][NextReport]_vars

\* The run got as far as the counts.
Counted ==
    /\ reported.kind = "report"
    /\ reported.input.state = "content"
    /\ reported.format \in { "json", "markdown", "cli" }

\* C30: for every input content the number of occurrences of "violation" is
\* at most the invariant count, so that the run does not abort and the
\* protected count of the report is invariant_count - violation_count, a
\* non-negative number, in all three formats.
C30_ProtectedNeverUnderflows ==
    Counted =>
        LET counts == ReportCounts(reported.input.content)
        IN  /\ counts.violation_count <= counts.invariant_count
            /\ reported.out.status # "panic"
            /\ reported.out.status = "ok" =>
                 reported.out.content =
                   report_content(reported.format, counts.invariant_count,
                                  << counts.invariant_count - counts.violation_count, 0, 0, 0 >>,
                                  counts.violation_count)

\* What the runs do: with at most as many violations as invariants the
\* protected count is the difference; with more, the run panics in a build
\* with overflow checks and reports the difference modulo 2^64 in one
\* without.
C30_UnderflowWhenMoreViolations ==
    Counted =>
        LET counts == ReportCounts(reported.input.content)
        IN  IF counts.violation_count <= counts.invariant_count
              THEN /\ reported.out.status # "panic"
                   /\ reported.out.status = "ok" =>
                        reported.out.content =
                          report_content(reported.format, counts.invariant_count,
                                         << counts.invariant_count - counts.violation_count,
                                            0, 0, 0 >>,
                                         counts.violation_count)
            ELSE IF reported.overflow_checks THEN reported.out = ReportPanic
            ELSE reported.out.status = "ok" =>
                   contains[reported.out.content, << "1", "8", "4", "4", "6", "7", "4", "4", "0", "7", "3", "7", "0", "9", "5", "5", "1", "6", "1" >>]

\* Two occurrences of "violation" and none of "invariant" were reported as
\* JSON by a build without overflow checks: the protected count is 2^64 - 1.
C30_WrappedReport ==
    /\ Counted
    /\ reported.input.content = s_violation \o s_violation
    /\ reported.format = "json"
    /\ ~reported.overflow_checks
    /\ reported.out.status = "ok"
    /\ reported.out.content =
         << "{", "\"", "i", "n", "v", "a", "r", "i", "a", "n", "t", "s", "\"", ":", " ", "1", ",", " ", "\"", "p", "r", "o", "t", "e" >> \o << "c", "t", "e", "d", "\"", ":", " ", "1", "8", "4", "4", "6", "7", "4", "4", "0", "7", "3", "7", "0", "9", "5", "5", "1" >> \o << "6", "1", "5", ",", " ", "\"", "v", "i", "o", "l", "a", "t", "i", "o", "n", "s", "\"", ":", " ", "2", ",", " ", "\"", "c" >> \o << "o", "v", "e", "r", "a", "g", "e", "\"", ":", " ", "1", "0", "0", "}" >>

====
